--------------------------- MODULE ChangeControl ----------------------------
(***************************************************************************)
(* What the harness promises whoever reads a manifest's status: a proposal *)
(* is decided once; an accepted change only ever widens, one version at a  *)
(* time; and a system is only changed in the name of the version that is   *)
(* accepted at that moment.  Validation, staging, budgets, contracts and   *)
(* approvals are the implementation's business.                            *)
(***************************************************************************)
EXTENDS Naturals

CONSTANTS Ids,         \* manifest identifiers
          Targets,     \* what a manifest may declare
          Invariants   \* the invariants it may name

VARIABLES life,        \* the record each identifier has in public
          changed      \* <<id, version>> the system was last changed for

Unknown == [version |-> 0, targets |-> {}, invariants |-> {}, status |-> "ABSENT"]

Init == /\ life = [i \in Ids |-> Unknown]
        /\ changed = <<0, 0>>

Propose(i) ==
    /\ life[i] = Unknown
    /\ \E t \in SUBSET Targets, v \in SUBSET Invariants :
          /\ t # {} /\ v # {}
          /\ life' = [life EXCEPT ![i] = [version |-> 1, targets |-> t, invariants |-> v,
                                          status |-> "PENDING_VALIDATION"]]
    /\ UNCHANGED changed

Decide(i) ==
    /\ life[i].status = "PENDING_VALIDATION"
    /\ \E s \in {"ACCEPTED", "REJECTED"} : life' = [life EXCEPT ![i].status = s]
    /\ UNCHANGED changed

Widen(i) ==
    /\ life[i].status = "ACCEPTED"
    /\ \E t \in SUBSET Targets, v \in SUBSET Invariants :
          life' = [life EXCEPT ![i] = [version    |-> life[i].version + 1,
                                       targets    |-> life[i].targets \cup t,
                                       invariants |-> life[i].invariants \cup v,
                                       status     |-> "ACCEPTED"]]
    /\ UNCHANGED changed

Change(i) ==
    /\ life[i].status = "ACCEPTED"
    /\ changed' = <<i, life[i].version>>
    /\ UNCHANGED life

Next == \E i \in Ids : Propose(i) \/ Decide(i) \/ Widen(i) \/ Change(i)

Spec == Init /\ [][Next]_<<life, changed>>
=============================================================================
