----------------------------- MODULE ReplayGate -----------------------------
(***************************************************************************)
(* Core's replay protection with its clock: what the nonce memory and the   *)
(* time window together promise.  Broker abstracts timestamps into a fresh  *)
(* / stale verdict; here the verdict is computed.                           *)
(*                                                                         *)
(* Invocations and responses pass check_replay, which wants a timestamp     *)
(* within replay_window_s of the clock, on either side, and an id that is   *)
(* not among the last REPLAY_NONCE_LRU_MAX ids accepted.  Registrations     *)
(* carry no id and pass check_timestamp_only.  The clock is the wall clock, *)
(* datetime.now: it may be set, forwards or backwards, between any two      *)
(* reads.  A missing or unreadable timestamp or id is refused and leaves    *)
(* the state alone, as every refusal does; so refusals are not steps.       *)
(***************************************************************************)
EXTENDS Integers, Sequences

CONSTANTS
    Ids,            \* envelope ids
    Nodes,          \* node ids that register
    Times,          \* what the clock and a timestamp may read, in seconds
    Window,         \* replay_window_s
    NonceMax,       \* REPLAY_NONCE_LRU_MAX
    HistoryMax      \* bound: how many acceptances a behaviour shows

ASSUME TimesAssumption == Times \subseteq Int /\ Window \in Nat
ASSUME NonceAssumption == NonceMax \in Nat \ {0} /\ HistoryMax \in Nat

VARIABLES
    now,            \* the wall clock
    nonces,         \* _replay_nonces, oldest first
    accepted,       \* history: the envelopes check_replay let pass, and when
    registered      \* history: the registrations let pass, and when
vars == <<now, nonces, accepted, registered>>

Acceptance   == [id : Ids, ts : Times, at : Times]
Registration == [node : Nodes, ts : Times, at : Times]

(* Everything has its type and the memory its bound.                       *)
TypeOK ==
    /\ now \in Times
    /\ nonces \in Seq(Ids) /\ Len(nonces) <= NonceMax
    /\ accepted \in Seq(Acceptance)
    /\ registered \in Seq(Registration)

Init ==
    /\ now \in Times
    /\ nonces = <<>> /\ accepted = <<>> /\ registered = <<>>

Apart(t, u) == IF t < u THEN u - t ELSE t - u

(* Mutants, here and below, are what a slip in the code would make of the    *)
(* definition that follows; no run uses them.  This one forgets abs().      *)
WithinWindowOfPast(ts) == now - ts <= Window

WithinWindow(ts) == Apart(now, ts) <= Window

Known(id) == \E k \in 1 .. Len(nonces) : nonces[k] = id

(* Mutants: the newest id is popped, as popitem() does; one too many is     *)
(* popped, as with `>=`.                                                   *)
RememberedDroppingNewest(id) ==
    IF Len(nonces) < NonceMax THEN Append(nonces, id) ELSE nonces
RememberedTooShort(id) ==
    LET longer == Append(nonces, id)
    IN  IF Len(longer) >= NonceMax THEN Tail(longer) ELSE longer

(* The new id at the end; the loop pops the oldest beyond the limit.       *)
Remembered(id) ==
    LET longer == Append(nonces, id)
    IN  IF Len(longer) > NonceMax THEN Tail(longer) ELSE longer

Room == Len(accepted) + Len(registered) < HistoryMax

(* check_replay lets an invocation or a response pass.                     *)
Accept(id, ts) ==
    /\ Room
    /\ WithinWindow(ts)
    /\ ~Known(id)
    /\ nonces' = Remembered(id)
    /\ accepted' = Append(accepted, [id |-> id, ts |-> ts, at |-> now])
    /\ UNCHANGED <<now, registered>>

(* handle_register takes a body whose timestamp check_timestamp_only lets   *)
(* pass; the nonce memory is not touched.                                  *)
AcceptRegistration(n, ts) ==
    /\ Room
    /\ WithinWindow(ts)
    /\ registered' = Append(registered, [node |-> n, ts |-> ts, at |-> now])
    /\ UNCHANGED <<now, nonces, accepted>>

ClockSet(t) ==
    /\ t # now
    /\ now' = t
    /\ UNCHANGED <<nonces, accepted, registered>>

Next ==
    \/ \E t \in Times : ClockSet(t)
    \/ \E id \in Ids, ts \in Times : Accept(id, ts)
    \/ \E n \in Nodes, ts \in Times : AcceptRegistration(n, ts)

Spec == Init /\ [][Next]_vars

-----------------------------------------------------------------------------
(* An id that was let pass is let pass again only after at least NonceMax   *)
(* others in between, and the same envelope only within two windows of the  *)
(* clock: this is the flood a captured message needs, the memory being      *)
(* bounded by count (core.py:443) and the window two-sided (core.py:201).   *)
ReplayNeedsFlood ==
    \A i, j \in 1 .. Len(accepted) :
        (i < j /\ accepted[i].id = accepted[j].id) =>
            /\ j - i > NonceMax
            /\ accepted[i].ts = accepted[j].ts =>
                   Apart(accepted[i].at, accepted[j].at) <= 2 * Window

(* A captured registration, which has no nonce (core.py:794), works again   *)
(* for at most two windows after any time it worked, whatever the clock     *)
(* does in between.                                                        *)
RegistrationsExpire ==
    \A i, j \in 1 .. Len(registered) :
        (registered[i].node = registered[j].node
           /\ registered[i].ts = registered[j].ts) =>
        Apart(registered[i].at, registered[j].at) <= 2 * Window

(* The memory is the last NonceMax acceptances, in order: it forgets nobody *)
(* early, and it never refuses an id that was not used.                     *)
Recalled == IF Len(accepted) < NonceMax THEN Len(accepted) ELSE NonceMax
MemoryIsRecent ==
    /\ Len(nonces) = Recalled
    /\ \A k \in 1 .. Recalled :
          nonces[k] = accepted[Len(accepted) - Recalled + k].id
=============================================================================
