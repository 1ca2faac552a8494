--------------------------- MODULE ExactlyOnceRpc ---------------------------
(***************************************************************************)
(* What eRPC promises its applications on one session: RPCs are issued,    *)
(* the request handler of each runs exactly once, gives one response, and  *)
(* the continuation sees that response, once.                              *)
(***************************************************************************)
EXTENDS Naturals

CONSTANTS NumRpcs, MaxRespPkts

VARIABLES
    issued,     \* the RPCs 1..issued were issued
    runs,       \* runs[r]: times the handler ran
    answer,     \* answer[r]: length of the response, 0 before it is given
    result      \* result[r]: length of the response delivered, 0 before

AllRpcs == 1..NumRpcs
svcVars == <<issued, runs, answer, result>>

Init ==
    /\ issued = 0
    /\ runs = [r \in AllRpcs |-> 0]
    /\ answer = [r \in AllRpcs |-> 0]
    /\ result = [r \in AllRpcs |-> 0]

Issue ==
    /\ issued < NumRpcs
    /\ issued' = issued + 1
    /\ UNCHANGED <<runs, answer, result>>

Execute(r) ==
    /\ r <= issued
    /\ runs[r] = 0
    /\ runs' = [runs EXCEPT ![r] = 1]
    /\ UNCHANGED <<issued, answer, result>>

Answer(r, pkts) ==
    /\ runs[r] = 1
    /\ answer[r] = 0
    /\ answer' = [answer EXCEPT ![r] = pkts]
    /\ UNCHANGED <<issued, runs, result>>

Complete(r) ==
    /\ answer[r] # 0
    /\ result[r] = 0
    /\ result' = [result EXCEPT ![r] = answer[r]]
    /\ UNCHANGED <<issued, runs, answer>>

Next ==
    \/ Issue
    \/ \E r \in AllRpcs :
         \/ Execute(r)
         \/ \E pkts \in 1..MaxRespPkts : Answer(r, pkts)
         \/ Complete(r)

Spec == Init /\ [][Next]_svcVars
=============================================================================
