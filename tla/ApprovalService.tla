--------------------------- MODULE ApprovalService --------------------------
(***************************************************************************)
(* harness/approvals.py: the operator's approvals.  One record per         *)
(* (manifest, action) key; a grant overwrites the record under its key.    *)
(* A record binds the manifest version, the arguments (their hash in the   *)
(* code) and the time after which it is void.                              *)
(***************************************************************************)
EXTENDS Naturals

CONSTANTS ApprovalIds,   \* manifest identifiers an operator may name
          Actions,       \* "purge_backups", "firewall_lockdown"
          Arguments,     \* argument values an approval is bound to
          NoArgument,    \* the empty argument dictionary
          Versions,      \* manifest versions an operator may name
          Durations,     \* values of duration_seconds
          MaxTime        \* bound on the clock

ASSUME ApprovalAssumption == /\ MaxTime \in Nat
                             /\ Durations \subseteq Nat
                             /\ Versions \subseteq Nat \ {0}
                             /\ NoArgument \in Arguments

VARIABLES approvals,  \* _approvals
          now         \* time.time()

approvalVars == <<approvals, now>>

ApprovalKeys == ApprovalIds \X Actions

ApprovalRecord == [version : Versions, arguments : Arguments, expires : Nat]

NoApproval == [version |-> 0, arguments |-> NoArgument, expires |-> 0]

ApprovalInit == /\ approvals = [k \in ApprovalKeys |-> NoApproval]
                /\ now = 0

GrantApproval(k, version, arguments, duration) ==
    /\ approvals' = [approvals EXCEPT ![k] = [version   |-> version,
                                              arguments |-> arguments,
                                              expires   |-> now + duration]]
    /\ UNCHANGED now

\* revoke_approval with an action, and without one.
RevokeApproval(k) ==
    /\ approvals' = [approvals EXCEPT ![k] = NoApproval]
    /\ UNCHANGED now

RevokeAllApprovals(i) ==
    /\ approvals' = [k \in ApprovalKeys |-> IF k[1] = i THEN NoApproval ELSE approvals[k]]
    /\ UNCHANGED now

ClockTick ==
    /\ now < MaxTime
    /\ now' = now + 1
    /\ UNCHANGED approvals

\* Wrong: an approval never expires.
IsValidForever(record, version, arguments) ==
    /\ record.version = version
    /\ record.arguments = arguments

\* ApprovalRecord.is_valid, at the present time, of the record that
\* verify_action_authorization has looked up.  It does not consume it.
IsValid(record, version, arguments) ==
    /\ ~(now > record.expires)
    /\ record.version = version
    /\ record.arguments = arguments
=============================================================================
