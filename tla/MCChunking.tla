------------------------------ MODULE MCChunking -------------------------------
(* An instance of Chunking for TLC. *)
EXTENDS Chunking, FiniteSets

CONSTANTS MaxBlocks, MaxText

(* every file of at most MaxBlocks blocks and MaxText tokens, with headings *)
(* and sheets where there are any; a file in one piece has one block        *)
Limit(format) == IF format \in {"txt", "image"} THEN 1 ELSE MaxBlocks
LeastText(format) == IF format \in Paged \cup {"csv"} THEN 0 ELSE 1
SmallBlock(format) ==
    {b \in [heading : IF format \in Sectioned \cup {"xlsx"} THEN BOOLEAN ELSE {FALSE},
            bare : IF format = "docx" THEN BOOLEAN ELSE {FALSE},
            to : LeastText(format) .. MaxText] : b.bare => b.heading}
SmallTexts(format) ==
    {b \in UNION {[1 .. n -> SmallBlock(format)] : n \in 0 .. Limit(format)} :
        \A i \in DOMAIN b :
            /\ i > 1 => b[i - 1].to + LeastText(format) <= b[i].to
            /\ i = 1 /\ format = "xlsx" => b[i].heading}
SmallFiles ==
    UNION {[format : {format}, blocks : SmallTexts(format),
            stops : SUBSET (1 .. MaxText - 1)] : format \in Formats}
=============================================================================
