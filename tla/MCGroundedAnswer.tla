-------------------------- MODULE MCGroundedAnswer --------------------------
(* Two documents of the user share a text; a third belongs to another.     *)
(* Each has a summary (position 1) and two passages under it.              *)
EXTENDS GroundedAnswer

MCRoleOf == <<"summary", "content", "content">>
MCParentOf == <<0, 1, 1>>

MCTextOf == << <<"s1", "shared", "b1">>, <<"s2", "shared", "b2">>, <<"s3", "a3", "b3">> >>
MCTokens == [s1 |-> 1, s2 |-> 2, s3 |-> 1, shared |-> 3, b1 |-> 1, b2 |-> 5, a3 |-> 1, b3 |-> 1]

MCSimilarity ==
    [asked     |-> << <<40, 80, 20>>, <<90, 70, 60>>, <<95, 95, 95>> >>,
     rewritten |-> << <<50, 60, 10>>, <<5, 90, 8>>, <<95, 95, 95>> >>]
MCLexicalScore ==
    [asked     |-> << <<0, 1, 3>>, <<0, 1, 0>>, <<9, 9, 9>> >>,
     rewritten |-> << <<2, 0, 0>>, <<0, 0, 0>>, <<9, 9, 9>> >>]

(* new, indexed, or being processed again; with vectors of either model *)
Uploaded == [status |-> "uploaded", run |-> 0, models |-> {}]
Indexed(status, m) == [status |-> status, run |-> 1, models |-> {m}]
MCStarts ==
    << {Indexed("ready", "m1"), Indexed("ready", "m2"), Indexed("processing", "m1")},
       {Uploaded, Indexed("ready", "m1"), Indexed("processing", "m2")},
       {Indexed("ready", "m1")} >>

Both == {"summary", "content"}
MCAsks ==
    {[query |-> "asked", scope |-> {}, roles |-> Both, floor |-> -100, topK |-> 1],
     [query |-> "asked", scope |-> {1, 3}, roles |-> {"content"}, floor |-> 30, topK |-> 2],
     [query |-> "asked", scope |-> {}, roles |-> {"content"}, floor |-> -100, topK |-> 5],
     [query |-> "rewritten", scope |-> {}, roles |-> Both, floor |-> -100, topK |-> 3]}
=============================================================================
