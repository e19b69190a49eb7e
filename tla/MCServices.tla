----------------------------- MODULE MCServices -----------------------------
(***************************************************************************)
(* An instance of Services for TLC: the bounds that are functions, and     *)
(* sets of sets.                                                           *)
(***************************************************************************)
EXTENDS Services

JobLimits   == [k \in Disturbances |-> 1]
LawLimits   == [publish |-> 1, tick |-> 1, sync |-> 2, upload |-> 1, admin |-> 1,
                fail |-> 1, crash |-> 1, lose |-> 1]
IndexLimits == [change |-> 2, fail |-> 2, kill |-> 1, audit |-> 1, search |-> 1, rebuild |-> 1]
GenLimits   == [ask |-> 1, sync |-> 1, fail |-> 1, crash |-> 1, command |-> 1]
Verdicts    == {{}, {"supersedes"}}
Chosen      == {{}, {CHOOSE c \in Circulars : TRUE}}

LawRunsOf   == {"u1", "u2", "u3"}
RunKinds    == [r \in LawRunsOf |-> CASE r = "u2" -> "command" [] r = "u3" -> "sync" [] OTHER -> "web"]
RunFiles    == [r \in LawRunsOf |-> IF r = "u3" THEN "none" ELSE "f1"]
Listed      == {"f1"}

=============================================================================
