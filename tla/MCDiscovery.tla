----------------------------- MODULE MCDiscovery -----------------------------
(* An instance of Discovery: room for two instances, so that the third key a *)
(* writer uses is refused.  Two writers only of the topic whose endpoints    *)
(* may offer too little.                                                     *)
EXTENDS Discovery

MCCapacity == [t \in AllTopics |-> 2]
MCPresent ==
  [t \in Topics |-> IF t = "target_tracks" THEN Endpoints
                    ELSE {CHOOSE w \in Writers : TRUE} \cup Readers]
MCMaxWrites == [t \in Topics |-> IF t = "target_tracks" THEN 1 ELSE 4]
=============================================================================
