------------------------------- MODULE Ledger -------------------------------
(***************************************************************************)
(* What the photo table, the flags, the audit log and the outbox promise   *)
(* together, whatever the requests do step by step: every operation is one *)
(* indivisible change of all four.                                         *)
(***************************************************************************)
EXTENDS FiniteSets, Functions

CONSTANTS
    Id,        \* photo ids
    Account,   \* owners and reporters
    Ruling     \* decisions a moderator may take, each at most once

VARIABLES
    unused,    \* ids never handed out
    uploading, \* ids handed out to an upload not yet committed
    live,      \* the photos there are
    flag,      \* the flags there are: <<photo, reporter>> -> state
    log,       \* audit log
    notice     \* notifications queued: <<ruling, flag>>

ledger == <<unused, uploading, live, flag, log, notice>>

On(p)      == {f \in DOMAIN flag : f[1] = p}
Waiting(p) == {f \in On(p) : flag[f] = "pending"}
Without(p) == Restrict(flag, DOMAIN flag \ On(p))
Unruled(d) == \A e \in log : e.by # d

Init ==
    /\ live \subseteq Id /\ uploading = {} /\ unused = Id \ live
    /\ DOMAIN flag \subseteq live \X Account
    /\ \A f \in DOMAIN flag : flag[f] = "pending"
    /\ log = {} /\ notice = {}

Reserve(p) ==
    /\ p \in unused
    /\ unused' = unused \ {p} /\ uploading' = uploading \cup {p}
    /\ UNCHANGED <<live, flag, log, notice>>

\* A photo appears once: an id given up or removed never comes back.
Publish(p) ==
    /\ p \in uploading
    /\ uploading' = uploading \ {p} /\ live' = live \cup {p}
    /\ UNCHANGED <<unused, flag, log, notice>>

GiveUp(p) ==
    /\ p \in uploading
    /\ uploading' = uploading \ {p}
    /\ UNCHANGED <<unused, live, flag, log, notice>>

File(f) ==
    /\ f[1] \in live /\ f \notin DOMAIN flag
    /\ flag' = [g \in DOMAIN flag \cup {f} |->
                  IF g = f THEN "pending" ELSE flag[g]]
    /\ UNCHANGED <<unused, uploading, live, log, notice>>

\* The owner takes the photo away, its flags with it.
Withdraw(p) ==
    /\ p \in live
    /\ live' = live \ {p} /\ flag' = Without(p)
    /\ UNCHANGED <<unused, uploading, log, notice>>

Dismiss(d, f) ==
    /\ Unruled(d) /\ f \in DOMAIN flag
    /\ flag' = [flag EXCEPT ![f] = "dismissed"]
    /\ log' = log \cup {[by |-> d, flag |-> f, decision |-> "dismiss"]}
    /\ notice' = notice \cup {<<d, f>>}
    /\ UNCHANGED <<unused, uploading, live>>

\* The photo goes, and every reporter still waiting on it is told. A flag
\* dismissed meanwhile does not stop the removal; its reporter, told of the
\* dismissal by then, may be told of the removal as well.
Remove(d, f) ==
    /\ Unruled(d) /\ f[1] \in live /\ f \in DOMAIN flag
    /\ live' = live \ {f[1]} /\ flag' = Without(f[1])
    /\ log' = log \cup {[by |-> d, flag |-> f, decision |-> "action"]}
    /\ \E told \in SUBSET On(f[1]) :
          Waiting(f[1]) \subseteq told /\ notice' = notice \cup ({d} \X told)
    /\ UNCHANGED <<unused, uploading>>

\* The owner was faster: there is nothing left to remove and nobody to tell,
\* but the removal is on record.
RemoveInVain(d, f) ==
    /\ Unruled(d) /\ f[1] \notin live \cup unused \cup uploading
    /\ log' = log \cup {[by |-> d, flag |-> f, decision |-> "action"]}
    /\ UNCHANGED <<unused, uploading, live, flag, notice>>

Next ==
    \/ \E p \in Id : Reserve(p) \/ Publish(p) \/ GiveUp(p) \/ Withdraw(p)
    \/ \E f \in Id \X Account :
          \/ File(f)
          \/ \E d \in Ruling : 
                Dismiss(d, f) \/ Remove(d, f) \/ RemoveInVain(d, f)

Spec == Init /\ [][Next]_ledger
=============================================================================
