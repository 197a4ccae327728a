---------------------------- MODULE TransportGateway ----------------------------
(***************************************************************************)
(* TransportPolicyGateway for one upstream host: a circuit that opens      *)
(* after repeated failures and is probed after a cooldown, callers of the  *)
(* same request sharing one fetch, and a short cache.                      *)
(*                                                                         *)
(* Every section under the gateway's lock is one step.  Between them a     *)
(* caller sleeps, sends, and looks at the circuit without the lock.        *)
(* Spacing of starts and the request budget are reduced to what they do:   *)
(* a caller may sleep before it goes on, or be refused.                    *)
(***************************************************************************)
EXTENDS Integers, FiniteSets

CONSTANTS
    Caller,         \* provider threads
    Request,        \* request identities
    Cached,         \* those whose callers pass a cache_ttl above zero
    Threshold,      \* max(1, failure_threshold)
    MaxRetries,     \* max_retries
    Nobody

ASSUME GatewayAssumption ==
    /\ Cached \subseteq Request
    /\ Threshold \in Nat \ {0}
    /\ MaxRetries \in Nat
    /\ Nobody \notin Caller

VARIABLES
    host,           \* _HostState: failures, open_until, probe_in_flight
    fresh,          \* the requests whose cached response has not expired
    inflight,       \* inflight[r]: the caller that fetches r, or Nobody
    caller          \* caller[c]: where c's request() is

vars == <<host, fresh, inflight, caller>>

(* circuit: open_until is 0 ("closed"), ahead ("cooling"), or past.        *)
Host == [failures : 0 .. Threshold, circuit : {"closed", "cooling", "cooled"},
         probing : BOOLEAN]

Answering == {"slot", "wake", "send", "succeed", "strike", "fault",
              "clear", "store", "leave"}

(* probe: probe_owner.  ok: the fetch has a response.  chosen: history, the *)
(* caller was let through as the probe, and has not reported since.        *)
Call == [pc : {"idle", "join", "joined"} \union Answering,
         request : Request \union {Nobody}, attempt : 0 .. MaxRetries,
         probe : BOOLEAN, ok : BOOLEAN, chosen : BOOLEAN]

Idle == [pc |-> "idle", request |-> Nobody, attempt |-> 0,
         probe |-> FALSE, ok |-> FALSE, chosen |-> FALSE]

TypeOK ==
    /\ host \in Host
    /\ fresh \subseteq Cached
    /\ inflight \in [Request -> Caller \union {Nobody}]
    /\ caller \in [Caller -> Call]

Init ==
    /\ host = [failures |-> 0, circuit |-> "closed", probing |-> FALSE]
    /\ fresh = {}
    /\ inflight = [r \in Request |-> Nobody]
    /\ caller = [c \in Caller |-> Idle]

At(c, pc) == caller[c].pc = pc
Becomes(c, changed) == caller' = [caller EXCEPT ![c] = changed]
Goto(c, pc) == Becomes(c, [caller[c] EXCEPT !.pc = pc])
Reports(c, pc, ok) ==
    Becomes(c, [caller[c] EXCEPT !.pc = pc, !.ok = ok, !.attempt = 0,
                                 !.chosen = FALSE])
OnlyCaller == UNCHANGED <<host, fresh, inflight>>
OnlyHost == UNCHANGED <<fresh, inflight>>

ProbeCleared == [host EXCEPT !.probing = FALSE]

-----------------------------------------------------------------------------
(* request *)

(* A cached or shared response may be refused by the caller's validator,   *)
(* which is a non-retryable failure of the host.                           *)
AnswerFromCache(c, r) ==
    /\ At(c, "idle") /\ r \in fresh
    /\ host' \in {host, ProbeCleared}
    /\ UNCHANGED <<fresh, inflight, caller>>

(* Mutant: the table of requests in flight is not looked at. *)
FetchUnasked(c, r) ==
    /\ At(c, "idle") /\ r \notin fresh
    /\ inflight' = [inflight EXCEPT ![r] = c]
    /\ Becomes(c, [Idle EXCEPT !.pc = "slot", !.request = r])
    /\ UNCHANGED <<host, fresh>>

Fetch(c, r) ==
    /\ At(c, "idle") /\ r \notin fresh /\ inflight[r] = Nobody
    /\ inflight' = [inflight EXCEPT ![r] = c]
    /\ Becomes(c, [Idle EXCEPT !.pc = "slot", !.request = r])
    /\ UNCHANGED <<host, fresh>>

Join(c, r) ==
    /\ At(c, "idle") /\ r \notin fresh /\ inflight[r] # Nobody
    /\ Becomes(c, [Idle EXCEPT !.pc = "join", !.request = r])
    /\ OnlyCaller

StoreResponse(c) ==
    /\ At(c, "store")
    /\ fresh' = fresh \union {caller[c].request}
    /\ Goto(c, "leave")
    /\ UNCHANGED <<host, inflight>>

Waiting(r) == {d \in Caller : At(d, "join") /\ caller[d].request = r}

(* Mutant: the event is set where the response is, not in "finally". *)
FinishIfAnswered(c) ==
    /\ At(c, "leave")
    /\ inflight' = [inflight EXCEPT ![caller[c].request] = Nobody]
    /\ caller' = [d \in Caller |->
            IF d = c THEN Idle
            ELSE IF d \in Waiting(caller[c].request) /\ caller[c].ok
                 THEN [caller[d] EXCEPT !.pc = "joined", !.ok = TRUE]
            ELSE caller[d]]
    /\ UNCHANGED <<host, fresh>>

(* The entry goes, and whoever waits for it is woken, answer or error. *)
Finish(c) ==
    /\ At(c, "leave")
    /\ inflight' = [inflight EXCEPT ![caller[c].request] = Nobody]
    /\ caller' = [d \in Caller |->
            IF d = c THEN Idle
            ELSE IF d \in Waiting(caller[c].request)
                 THEN [caller[d] EXCEPT !.pc = "joined", !.ok = caller[c].ok]
            ELSE caller[d]]
    /\ UNCHANGED <<host, fresh>>

AnswerJoined(c) ==
    /\ At(c, "joined")
    /\ \/ UNCHANGED host
       \/ caller[c].ok /\ host' = ProbeCleared
    /\ Becomes(c, Idle)
    /\ OnlyHost

-----------------------------------------------------------------------------
(* _request_with_policy, one attempt *)

(* A cooling host refuses, and so does one that is being probed.  The      *)
(* clock was read before the lock was taken, so a cooldown that has just   *)
(* ended may still refuse.                                                 *)
RefuseSlot(c) ==
    /\ At(c, "slot") /\ ~caller[c].probe /\ host.circuit # "closed"
    /\ Reports(c, "clear", FALSE)
    /\ OnlyCaller

GrantSlot(c) ==
    /\ At(c, "slot")
    /\ caller[c].probe \/ host.circuit = "closed"
    /\ Goto(c, "wake")
    /\ OnlyCaller

ChooseProbe(c) ==
    /\ At(c, "slot") /\ ~caller[c].probe
    /\ host.circuit = "cooled" /\ ~host.probing
    /\ host' = [host EXCEPT !.probing = TRUE]
    /\ Becomes(c, [caller[c] EXCEPT !.pc = "wake", !.chosen = TRUE])
    /\ OnlyHost

(* Mutant: who is the probe is not said to the caller. *)
WakeUnaware(c) ==
    /\ At(c, "wake")
    /\ Goto(c, "send")
    /\ OnlyCaller

(* After the sleep, without the lock: a circuit that is open by now makes  *)
(* any caller take itself for its probe.                                   *)
Wake(c) ==
    /\ At(c, "wake")
    /\ Becomes(c, [caller[c] EXCEPT !.pc = "send",
                        !.probe = @ \/ host.circuit # "closed"])
    /\ OnlyCaller

BudgetExhausted(c) ==
    /\ At(c, "send")
    /\ Reports(c, "clear", FALSE)
    /\ OnlyCaller

(* A valid response; a failure that is not retried, or no more; a failure  *)
(* that is, after a sleep.                                                 *)
Send(c) ==
    /\ At(c, "send")
    /\ \/ Goto(c, "succeed")
       \/ Goto(c, "fault")
       \/ Goto(c, "strike")
       \/ /\ caller[c].attempt < MaxRetries
          /\ Becomes(c, [caller[c] EXCEPT !.pc = "slot", !.attempt = @ + 1])
    /\ OnlyCaller

RecordSuccess(c) ==
    /\ At(c, "succeed")
    /\ host' = [failures |-> 0, circuit |-> "closed", probing |-> FALSE]
    /\ Reports(c, "clear", TRUE)
    /\ OnlyHost

(* Mutant: opening the circuit starts the count again. *)
StrikeAndReset ==
    IF host.failures + 1 >= Threshold
    THEN [failures |-> 0, circuit |-> "cooling", probing |-> FALSE]
    ELSE [ProbeCleared EXCEPT !.failures = @ + 1]

(* failures counts on beyond the threshold; only reaching it matters. *)
Strike ==
    IF host.failures + 1 >= Threshold
    THEN [failures |-> Threshold, circuit |-> "cooling", probing |-> FALSE]
    ELSE [ProbeCleared EXCEPT !.failures = @ + 1]

RecordRetryableFailure(c) ==
    /\ At(c, "strike")
    /\ host' = Strike
    /\ Reports(c, "clear", FALSE)
    /\ OnlyHost

RecordNonRetryableFailure(c) ==
    /\ At(c, "fault")
    /\ host' = ProbeCleared
    /\ Reports(c, "clear", FALSE)
    /\ OnlyHost

(* "finally": by whoever takes itself for the probe. *)
ClearProbe(c) ==
    /\ At(c, "clear")
    /\ host' = IF caller[c].probe THEN ProbeCleared ELSE host
    /\ Becomes(c, [caller[c] EXCEPT !.probe = FALSE,
            !.pc = IF caller[c].ok /\ caller[c].request \in Cached
                   THEN "store" ELSE "leave"])
    /\ OnlyHost

-----------------------------------------------------------------------------
Cooldown ==
    /\ host.circuit = "cooling"
    /\ host' = [host EXCEPT !.circuit = "cooled"]
    /\ UNCHANGED <<fresh, inflight, caller>>

Expire(r) ==
    /\ r \in fresh
    /\ fresh' = fresh \ {r}
    /\ UNCHANGED <<host, inflight, caller>>

CallerStep(c) ==
    \/ StoreResponse(c) \/ Finish(c) \/ AnswerJoined(c)
    \/ RefuseSlot(c) \/ GrantSlot(c) \/ ChooseProbe(c) \/ Wake(c)
    \/ BudgetExhausted(c) \/ Send(c)
    \/ RecordSuccess(c) \/ RecordRetryableFailure(c)
    \/ RecordNonRetryableFailure(c) \/ ClearProbe(c)

Next ==
    \/ \E c \in Caller, r \in Request :
          AnswerFromCache(c, r) \/ Fetch(c, r) \/ Join(c, r)
    \/ \E c \in Caller : CallerStep(c)
    \/ Cooldown
    \/ \E r \in Request : Expire(r)

Spec == Init /\ [][Next]_vars

(* Threads run; engines have timeouts, so a send ends. *)
LiveSpec == Spec /\ \A c \in Caller : WF_vars(CallerStep(c))

-----------------------------------------------------------------------------
(* The flag that keeps everybody else out while the host is probed is      *)
(* never left behind: somebody who will clear it is on the way, whatever   *)
(* others record in the meantime and however the probe fails.              *)
ProbeWillEnd ==
    host.probing => \E c \in Caller :
        \/ caller[c].probe /\ caller[c].pc \in Answering \ {"store", "leave"}
        \/ At(c, "wake") /\ host.circuit # "closed"

(* Callers of the same request share one fetch, and nobody fetches what is *)
(* cached: the response is stored before the flight ends.                  *)
OneFetchPerRequest ==
    \A c, d \in Caller :
        /\ caller[c].pc \in Answering /\ caller[d].pc \in Answering
        /\ caller[c].request = caller[d].request
        => c = d /\ (caller[c].request \in fresh => At(c, "leave"))

(* A circuit that has opened stays strict: until a success closes it, one  *)
(* more retryable failure, the probe's or a straggler's, starts a new      *)
(* cooldown.                                                               *)
OpenCircuitIsStrict ==
    [][ \A c \in Caller :
            /\ host.circuit # "closed"
            /\ At(c, "strike") /\ ~At(c, "strike")'
            => host'.circuit = "cooling" ]_vars

(* Every call returns, those that wait for another's fetch included,       *)
(* however that fetch ends.                                                *)
CallsReturn == \A c \in Caller : ~At(c, "idle") ~> At(c, "idle")

(* provider-http-transport: "allow one controlled half-open probe after    *)
(* the cooldown".  Two callers let through as the probe, neither of which  *)
(* has reported yet, are two.  Not so in the code: README, Disagreements.  *)
OneProbe == \A c, d \in Caller : caller[c].chosen /\ caller[d].chosen => c = d
=============================================================================
