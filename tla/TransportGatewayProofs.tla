------------------------ MODULE TransportGatewayProofs ------------------------
(***************************************************************************)
(* The safety properties of the gateway, for any number of callers and     *)
(* requests, any threshold and any number of retries.                      *)
(*                                                                         *)
(* The four are not inductive one by one.  GatewayInv adds who owns a      *)
(* flight, from which it follows that there is one, and what the count of  *)
(* failures is while the circuit is open, from which it follows that the   *)
(* next failure opens it again.                                            *)
(***************************************************************************)
EXTENDS TransportGateway, TLAPS

(* Whoever fetches is the one in the table, has not stored yet or is about *)
(* to leave, and stores only what may be cached.                           *)
OwnFlight ==
    \A c \in Caller : caller[c].pc \in Answering =>
        /\ caller[c].request \in Request
        /\ inflight[caller[c].request] = c
        /\ caller[c].request \in fresh => At(c, "leave")
        /\ At(c, "store") => caller[c].request \in Cached

(* The count that opened the circuit is kept while it is open. *)
OpenIsCounted == host.circuit # "closed" => host.failures = Threshold

GatewayInv == TypeOK /\ OwnFlight /\ OpenIsCounted /\ ProbeWillEnd

-----------------------------------------------------------------------------
(* Types *)

Pc == {"idle", "join", "joined"} \union Answering

LEMMA FirstAttempt == 0 \in 0 .. MaxRetries
    BY GatewayAssumption

(* What a step may make of a call is a call. *)
LEMMA CallsAreTyped ==
    ASSUME NEW k \in Call, NEW pc \in Pc, NEW b \in BOOLEAN
    PROVE  /\ [k EXCEPT !.pc = pc] \in Call
           /\ [k EXCEPT !.pc = pc, !.ok = b] \in Call
           /\ [k EXCEPT !.pc = pc, !.ok = b, !.attempt = 0, !.chosen = FALSE] \in Call
           /\ [k EXCEPT !.pc = pc, !.probe = b] \in Call
           /\ [k EXCEPT !.probe = b, !.pc = pc] \in Call
           /\ [k EXCEPT !.pc = pc, !.chosen = b] \in Call
<1>1. [k EXCEPT !.pc = pc] \in Call /\ [k EXCEPT !.pc = pc, !.ok = b] \in Call
    BY DEF Call, Pc
<1>2. [k EXCEPT !.pc = pc, !.ok = b, !.attempt = 0, !.chosen = FALSE] \in Call
    BY FirstAttempt DEF Call, Pc
<1>3. [k EXCEPT !.pc = pc, !.probe = b] \in Call /\ [k EXCEPT !.probe = b, !.pc = pc] \in Call
    BY DEF Call, Pc
<1>4. [k EXCEPT !.pc = pc, !.chosen = b] \in Call
    BY DEF Call, Pc
<1> QED
    BY <1>1, <1>2, <1>3, <1>4

LEMMA IdleIsTyped ==
    /\ Idle \in Call
    /\ \A pc \in Pc, r \in Request : [Idle EXCEPT !.pc = pc, !.request = r] \in Call
    BY FirstAttempt DEF Call, Idle, Pc

LEMMA NextAttemptIsTyped ==
    ASSUME NEW k \in Call, k.attempt < MaxRetries, NEW pc \in Pc
    PROVE  [k EXCEPT !.pc = pc, !.attempt = @ + 1] \in Call
<1>1. k.attempt + 1 \in 0 .. MaxRetries
    BY GatewayAssumption DEF Call
<1> QED
    BY <1>1 DEF Call, Pc

(* What a step may make of the host is a host. *)
LEMMA HostsAreTyped ==
    ASSUME TypeOK
    PROVE  /\ ProbeCleared \in Host
           /\ [host EXCEPT !.probing = TRUE] \in Host
           /\ [host EXCEPT !.circuit = "cooled"] \in Host
           /\ [failures |-> 0, circuit |-> "closed", probing |-> FALSE] \in Host
           /\ Strike \in Host
<1>1. /\ ProbeCleared \in Host
      /\ [host EXCEPT !.probing = TRUE] \in Host
      /\ [host EXCEPT !.circuit = "cooled"] \in Host
    BY DEF TypeOK, Host, ProbeCleared
<1>2. 0 \in 0 .. Threshold /\ Threshold \in 0 .. Threshold
    BY GatewayAssumption
<1>3. [failures |-> 0, circuit |-> "closed", probing |-> FALSE] \in Host
    BY <1>2 DEF Host
<1>4. CASE host.failures + 1 >= Threshold
    <2>1. Strike = [failures |-> Threshold, circuit |-> "cooling", probing |-> FALSE]
        BY <1>4 DEF Strike
    <2> QED
        BY <2>1, <1>1, <1>2, <1>3 DEF Host
<1>5. CASE ~(host.failures + 1 >= Threshold)
    <2>1. host.failures + 1 \in 0 .. Threshold
        BY <1>5, GatewayAssumption DEF TypeOK, Host
    <2>2. Strike = [failures |-> host.failures + 1, circuit |-> host.circuit,
                    probing |-> FALSE]
        BY <1>5 DEF Strike, ProbeCleared, TypeOK, Host
    <2> QED
        BY <2>1, <2>2, <1>1, <1>3 DEF TypeOK, Host
<1> QED
    BY <1>1, <1>3, <1>4, <1>5

LEMMA TypedStep ==
    ASSUME TypeOK, NEW c \in Caller, NEW k \in Call, Becomes(c, k),
           host' \in Host, fresh' \subseteq Cached,
           inflight' \in [Request -> Caller \union {Nobody}]
    PROVE  TypeOK'
    BY DEF TypeOK, Becomes

(* Every step keeps the types, given that only what may be cached is stored. *)
LEMMA TypeIsKept ==
    ASSUME TypeOK, OwnFlight, [Next]_vars
    PROVE  TypeOK'
<1> USE DEF Pc, Answering
<1>1. ASSUME NEW c \in Caller, NEW r \in Request, AnswerFromCache(c, r) PROVE TypeOK'
    BY <1>1, HostsAreTyped DEF AnswerFromCache, TypeOK
<1>2. ASSUME NEW c \in Caller, NEW r \in Request, Fetch(c, r) PROVE TypeOK'
    BY <1>2, IdleIsTyped, TypedStep DEF Fetch, TypeOK
<1>3. ASSUME NEW c \in Caller, NEW r \in Request, Join(c, r) PROVE TypeOK'
    BY <1>3, IdleIsTyped, TypedStep DEF Join, OnlyCaller, TypeOK
<1>4. ASSUME NEW c \in Caller, StoreResponse(c) PROVE TypeOK'
    <2>1. fresh' \subseteq Cached
        BY <1>4 DEF StoreResponse, TypeOK, OwnFlight, At
    <2>2. [caller[c] EXCEPT !.pc = "leave"] \in Call
        BY CallsAreTyped, Zenon DEF TypeOK
    <2> QED
        BY <1>4, <2>1, <2>2, TypedStep DEF StoreResponse, Goto, TypeOK
<1>5. ASSUME NEW c \in Caller, Finish(c) PROVE TypeOK'
    <2>1. caller[c].request \in Request
        BY <1>5 DEF Finish, At, OwnFlight
    <2>2. inflight' \in [Request -> Caller \union {Nobody}]
        BY <1>5, <2>1 DEF Finish, TypeOK
    <2>3. \A d \in Caller : [caller[d] EXCEPT !.pc = "joined", !.ok = caller[c].ok] \in Call
        <3>1. caller[c].ok \in BOOLEAN
            BY DEF TypeOK, Call
        <3> QED
            BY <3>1, CallsAreTyped, Zenon DEF TypeOK
    <2>4. caller' \in [Caller -> Call]
        BY <1>5, <2>3, IdleIsTyped DEF Finish, TypeOK
    <2> QED
        BY <1>5, <2>2, <2>4 DEF Finish, TypeOK
<1>6. ASSUME NEW c \in Caller, AnswerJoined(c) PROVE TypeOK'
    BY <1>6, IdleIsTyped, HostsAreTyped, TypedStep DEF AnswerJoined, OnlyHost, TypeOK
<1>7. ASSUME NEW c \in Caller, RefuseSlot(c) PROVE TypeOK'
    <2>1. [caller[c] EXCEPT !.pc = "clear", !.ok = FALSE, !.attempt = 0, !.chosen = FALSE] \in Call
        BY CallsAreTyped, Zenon DEF TypeOK
    <2> QED
        BY <1>7, <2>1, TypedStep DEF RefuseSlot, Reports, OnlyCaller, TypeOK
<1>8. ASSUME NEW c \in Caller, GrantSlot(c) PROVE TypeOK'
    <2>1. [caller[c] EXCEPT !.pc = "wake"] \in Call
        BY CallsAreTyped, Zenon DEF TypeOK
    <2> QED
        BY <1>8, <2>1, TypedStep DEF GrantSlot, Goto, OnlyCaller, TypeOK
<1>9. ASSUME NEW c \in Caller, ChooseProbe(c) PROVE TypeOK'
    <2>1. [caller[c] EXCEPT !.pc = "wake", !.chosen = TRUE] \in Call
        BY CallsAreTyped, Zenon DEF TypeOK
    <2> QED
        BY <1>9, <2>1, HostsAreTyped, TypedStep DEF ChooseProbe, OnlyHost, TypeOK
<1>10. ASSUME NEW c \in Caller, Wake(c) PROVE TypeOK'
    <2>1. (caller[c].probe \/ host.circuit # "closed") \in BOOLEAN
        OBVIOUS
    <2>2. [caller[c] EXCEPT !.pc = "send", !.probe = @ \/ host.circuit # "closed"] \in Call
        BY <2>1, CallsAreTyped, Zenon DEF TypeOK
    <2> QED
        BY <1>10, <2>2, TypedStep DEF Wake, OnlyCaller, TypeOK
<1>11. ASSUME NEW c \in Caller, BudgetExhausted(c) PROVE TypeOK'
    <2>1. [caller[c] EXCEPT !.pc = "clear", !.ok = FALSE, !.attempt = 0, !.chosen = FALSE] \in Call
        BY CallsAreTyped, Zenon DEF TypeOK
    <2> QED
        BY <1>11, <2>1, TypedStep DEF BudgetExhausted, Reports, OnlyCaller, TypeOK
<1>12. ASSUME NEW c \in Caller, Send(c) PROVE TypeOK'
    <2>1. \A pc \in Pc : [caller[c] EXCEPT !.pc = pc] \in Call
        BY CallsAreTyped, Zenon DEF TypeOK
    <2>2. caller[c].attempt < MaxRetries =>
            [caller[c] EXCEPT !.pc = "slot", !.attempt = @ + 1] \in Call
        BY NextAttemptIsTyped, Zenon DEF TypeOK
    <2> QED
        BY <1>12, <2>1, <2>2, TypedStep DEF Send, Goto, OnlyCaller, TypeOK
<1>13. ASSUME NEW c \in Caller, RecordSuccess(c) PROVE TypeOK'
    <2>1. [caller[c] EXCEPT !.pc = "clear", !.ok = TRUE, !.attempt = 0, !.chosen = FALSE] \in Call
        BY CallsAreTyped, Zenon DEF TypeOK
    <2> QED
        BY <1>13, <2>1, HostsAreTyped, TypedStep DEF RecordSuccess, Reports, OnlyHost, TypeOK
<1>14. ASSUME NEW c \in Caller, RecordRetryableFailure(c) PROVE TypeOK'
    <2>1. [caller[c] EXCEPT !.pc = "clear", !.ok = FALSE, !.attempt = 0, !.chosen = FALSE] \in Call
        BY CallsAreTyped, Zenon DEF TypeOK
    <2> QED
        BY <1>14, <2>1, HostsAreTyped, TypedStep DEF RecordRetryableFailure, Reports, OnlyHost, TypeOK
<1>15. ASSUME NEW c \in Caller, RecordNonRetryableFailure(c) PROVE TypeOK'
    <2>1. [caller[c] EXCEPT !.pc = "clear", !.ok = FALSE, !.attempt = 0, !.chosen = FALSE] \in Call
        BY CallsAreTyped, Zenon DEF TypeOK
    <2> QED
        BY <1>15, <2>1, HostsAreTyped, TypedStep DEF RecordNonRetryableFailure, Reports, OnlyHost, TypeOK
<1>16. ASSUME NEW c \in Caller, ClearProbe(c) PROVE TypeOK'
    <2> DEFINE pc == IF caller[c].ok /\ caller[c].request \in Cached
                     THEN "store" ELSE "leave"
    <2>1. pc \in Pc
        OBVIOUS
    <2> HIDE DEF pc
    <2>2. [caller[c] EXCEPT !.probe = FALSE, !.pc = pc] \in Call
        BY <2>1, CallsAreTyped, Zenon DEF TypeOK
    <2> QED
        BY <1>16, <2>2, HostsAreTyped, TypedStep DEF ClearProbe, OnlyHost, TypeOK, pc
<1>17. ASSUME Cooldown PROVE TypeOK'
    BY <1>17, HostsAreTyped DEF Cooldown, TypeOK
<1>18. ASSUME NEW r \in Request, Expire(r) PROVE TypeOK'
    BY <1>18 DEF Expire, TypeOK
<1>19. CASE UNCHANGED vars
    BY <1>19 DEF vars, TypeOK
<1> QED
    BY <1>1, <1>2, <1>3, <1>4, <1>5, <1>6, <1>7, <1>8, <1>9, <1>10,
       <1>11, <1>12, <1>13, <1>14, <1>15, <1>16, <1>17, <1>18, <1>19
       DEF Next, CallerStep

-----------------------------------------------------------------------------
(* Where a sent attempt may go, and what it leaves alone. *)
LEMMA SendMoves ==
    ASSUME TypeOK, NEW c \in Caller, Send(c)
    PROVE  /\ At(c, "send")
           /\ caller'[c].pc \in {"succeed", "fault", "strike", "slot"}
           /\ caller'[c].request = caller[c].request
           /\ caller'[c].probe = caller[c].probe
           /\ \A d \in Caller \ {c} : caller'[d] = caller[d]
           /\ UNCHANGED <<host, fresh, inflight>>
<1>1. \A pc \in {"succeed", "fault", "strike", "slot"} :
        /\ [caller[c] EXCEPT !.pc = pc].pc = pc
        /\ [caller[c] EXCEPT !.pc = pc].request = caller[c].request
        /\ [caller[c] EXCEPT !.pc = pc].probe = caller[c].probe
    BY DEF TypeOK, Call
<1>2. /\ [caller[c] EXCEPT !.pc = "slot", !.attempt = @ + 1].pc = "slot"
      /\ [caller[c] EXCEPT !.pc = "slot", !.attempt = @ + 1].request = caller[c].request
      /\ [caller[c] EXCEPT !.pc = "slot", !.attempt = @ + 1].probe = caller[c].probe
    BY DEF TypeOK, Call
<1> QED
    BY <1>1, <1>2 DEF Send, Goto, Becomes, OnlyCaller, TypeOK

(* Whoever will clear the flag stays on the way until it does. *)
LEMMA ProbeFlagIsKept ==
    ASSUME TypeOK, ProbeWillEnd, [Next]_vars
    PROVE  ProbeWillEnd'
<1> USE DEF TypeOK, ProbeWillEnd, Host, Call, Answering, At, Becomes
<1>1. ASSUME NEW c \in Caller, NEW r \in Request, AnswerFromCache(c, r) PROVE ProbeWillEnd'
    BY <1>1 DEF AnswerFromCache, ProbeCleared
<1>2. ASSUME NEW c \in Caller, NEW r \in Request, Fetch(c, r) PROVE ProbeWillEnd'
    BY <1>2 DEF Fetch, Idle
<1>3. ASSUME NEW c \in Caller, NEW r \in Request, Join(c, r) PROVE ProbeWillEnd'
    BY <1>3 DEF Join, Idle, OnlyCaller
<1>4. ASSUME NEW c \in Caller, StoreResponse(c) PROVE ProbeWillEnd'
    BY <1>4 DEF StoreResponse, Goto
<1>5. ASSUME NEW c \in Caller, Finish(c) PROVE ProbeWillEnd'
    BY <1>5 DEF Finish, Idle, Waiting
<1>6. ASSUME NEW c \in Caller, AnswerJoined(c) PROVE ProbeWillEnd'
    BY <1>6 DEF AnswerJoined, Idle, ProbeCleared, OnlyHost
<1>7. ASSUME NEW c \in Caller, RefuseSlot(c) PROVE ProbeWillEnd'
    BY <1>7 DEF RefuseSlot, Reports, OnlyCaller
<1>8. ASSUME NEW c \in Caller, GrantSlot(c) PROVE ProbeWillEnd'
    BY <1>8 DEF GrantSlot, Goto, OnlyCaller
<1>9. ASSUME NEW c \in Caller, ChooseProbe(c) PROVE ProbeWillEnd'
    BY <1>9 DEF ChooseProbe, OnlyHost
<1>10. ASSUME NEW c \in Caller, Wake(c) PROVE ProbeWillEnd'
    BY <1>10 DEF Wake, OnlyCaller
<1>11. ASSUME NEW c \in Caller, BudgetExhausted(c) PROVE ProbeWillEnd'
    BY <1>11 DEF BudgetExhausted, Reports, OnlyCaller
<1>12. ASSUME NEW c \in Caller, Send(c) PROVE ProbeWillEnd'
    BY <1>12, SendMoves
<1>13. ASSUME NEW c \in Caller, RecordSuccess(c) PROVE ProbeWillEnd'
    BY <1>13 DEF RecordSuccess, Reports, OnlyHost
<1>14. ASSUME NEW c \in Caller, RecordRetryableFailure(c) PROVE ProbeWillEnd'
    BY <1>14 DEF RecordRetryableFailure, Strike, ProbeCleared, Reports, OnlyHost
<1>15. ASSUME NEW c \in Caller, RecordNonRetryableFailure(c) PROVE ProbeWillEnd'
    BY <1>15 DEF RecordNonRetryableFailure, ProbeCleared, Reports, OnlyHost
<1>16. ASSUME NEW c \in Caller, ClearProbe(c) PROVE ProbeWillEnd'
    BY <1>16 DEF ClearProbe, ProbeCleared, OnlyHost
<1>17. ASSUME Cooldown PROVE ProbeWillEnd'
    BY <1>17 DEF Cooldown
<1>18. ASSUME NEW r \in Request, Expire(r) PROVE ProbeWillEnd'
    BY <1>18 DEF Expire
<1>19. CASE UNCHANGED vars
    BY <1>19 DEF vars
<1> QED
    BY <1>1, <1>2, <1>3, <1>4, <1>5, <1>6, <1>7, <1>8, <1>9, <1>10,
       <1>11, <1>12, <1>13, <1>14, <1>15, <1>16, <1>17, <1>18, <1>19
       DEF Next, CallerStep

(* Every step keeps the table of flights right. *)
LEMMA FlightIsKept ==
    ASSUME TypeOK, OwnFlight, [Next]_vars
    PROVE  OwnFlight'
<1> USE GatewayAssumption DEF TypeOK, OwnFlight, Call, Answering, At, Becomes
<1>1. ASSUME NEW c \in Caller, NEW r \in Request, AnswerFromCache(c, r) PROVE OwnFlight'
    BY <1>1 DEF AnswerFromCache, ProbeCleared
<1>2. ASSUME NEW c \in Caller, NEW r \in Request, Fetch(c, r) PROVE OwnFlight'
    BY <1>2 DEF Fetch, Idle
<1>3. ASSUME NEW c \in Caller, NEW r \in Request, Join(c, r) PROVE OwnFlight'
    BY <1>3 DEF Join, Idle, OnlyCaller
<1>4. ASSUME NEW c \in Caller, StoreResponse(c) PROVE OwnFlight'
    BY <1>4 DEF StoreResponse, Goto
<1>5. ASSUME NEW c \in Caller, Finish(c) PROVE OwnFlight'
    <2> SUFFICES ASSUME NEW d \in Caller, caller'[d].pc \in Answering
                 PROVE  /\ caller'[d].request \in Request
                        /\ inflight'[caller'[d].request] = d
                        /\ caller'[d].request \in fresh' => At(d, "leave")'
                        /\ At(d, "store")' => caller'[d].request \in Cached
        OBVIOUS
    <2>1. d # c /\ d \notin Waiting(caller[c].request)
        <3>1. caller'[c] = Idle
            BY <1>5 DEF Finish
        <3>2. d # c
            BY <3>1 DEF Idle
        <3>3. ASSUME d \in Waiting(caller[c].request) PROVE FALSE
            <4>1. caller'[d] = [caller[d] EXCEPT !.pc = "joined", !.ok = caller[c].ok]
                BY <1>5, <3>2, <3>3 DEF Finish
            <4> QED
                BY <4>1
        <3> QED
            BY <3>2, <3>3
    <2>2. caller'[d] = caller[d]
        BY <1>5, <2>1 DEF Finish
    <2>3. inflight[caller[c].request] = c /\ inflight[caller[d].request] = d
        BY <1>5, <2>2 DEF Finish
    <2>4. inflight'[caller[d].request] = d
        BY <1>5, <2>1, <2>2, <2>3 DEF Finish
    <2>5. UNCHANGED fresh
        BY <1>5 DEF Finish
    <2> QED
        BY <2>2, <2>4, <2>5
<1>6. ASSUME NEW c \in Caller, AnswerJoined(c) PROVE OwnFlight'
    BY <1>6 DEF AnswerJoined, Idle, ProbeCleared, OnlyHost
<1>7. ASSUME NEW c \in Caller, RefuseSlot(c) PROVE OwnFlight'
    BY <1>7 DEF RefuseSlot, Reports, OnlyCaller
<1>8. ASSUME NEW c \in Caller, GrantSlot(c) PROVE OwnFlight'
    BY <1>8 DEF GrantSlot, Goto, OnlyCaller
<1>9. ASSUME NEW c \in Caller, ChooseProbe(c) PROVE OwnFlight'
    BY <1>9 DEF ChooseProbe, OnlyHost
<1>10. ASSUME NEW c \in Caller, Wake(c) PROVE OwnFlight'
    BY <1>10 DEF Wake, OnlyCaller
<1>11. ASSUME NEW c \in Caller, BudgetExhausted(c) PROVE OwnFlight'
    BY <1>11 DEF BudgetExhausted, Reports, OnlyCaller
<1>12. ASSUME NEW c \in Caller, Send(c) PROVE OwnFlight'
    BY <1>12, SendMoves
<1>13. ASSUME NEW c \in Caller, RecordSuccess(c) PROVE OwnFlight'
    BY <1>13 DEF RecordSuccess, Reports, OnlyHost
<1>14. ASSUME NEW c \in Caller, RecordRetryableFailure(c) PROVE OwnFlight'
    BY <1>14 DEF RecordRetryableFailure, Strike, ProbeCleared, Reports, OnlyHost
<1>15. ASSUME NEW c \in Caller, RecordNonRetryableFailure(c) PROVE OwnFlight'
    BY <1>15 DEF RecordNonRetryableFailure, ProbeCleared, Reports, OnlyHost
<1>16. ASSUME NEW c \in Caller, ClearProbe(c) PROVE OwnFlight'
    BY <1>16 DEF ClearProbe, ProbeCleared, OnlyHost
<1>17. ASSUME Cooldown PROVE OwnFlight'
    BY <1>17 DEF Cooldown
<1>18. ASSUME NEW r \in Request, Expire(r) PROVE OwnFlight'
    BY <1>18 DEF Expire
<1>19. CASE UNCHANGED vars
    BY <1>19 DEF vars
<1> QED
    BY <1>1, <1>2, <1>3, <1>4, <1>5, <1>6, <1>7, <1>8, <1>9, <1>10,
       <1>11, <1>12, <1>13, <1>14, <1>15, <1>16, <1>17, <1>18, <1>19
       DEF Next, CallerStep

(* Every step keeps the count that opened the circuit. *)
LEMMA CountIsKept ==
    ASSUME TypeOK, OpenIsCounted, [Next]_vars
    PROVE  OpenIsCounted'
<1> USE GatewayAssumption DEF TypeOK, OpenIsCounted, Host, At, Becomes
<1>1. ASSUME NEW c \in Caller, NEW r \in Request, AnswerFromCache(c, r) PROVE OpenIsCounted'
    BY <1>1 DEF AnswerFromCache, ProbeCleared
<1>2. ASSUME NEW c \in Caller, NEW r \in Request, Fetch(c, r) PROVE OpenIsCounted'
    BY <1>2 DEF Fetch, Idle
<1>3. ASSUME NEW c \in Caller, NEW r \in Request, Join(c, r) PROVE OpenIsCounted'
    BY <1>3 DEF Join, Idle, OnlyCaller
<1>4. ASSUME NEW c \in Caller, StoreResponse(c) PROVE OpenIsCounted'
    BY <1>4 DEF StoreResponse, Goto
<1>5. ASSUME NEW c \in Caller, Finish(c) PROVE OpenIsCounted'
    BY <1>5 DEF Finish, Idle, Waiting
<1>6. ASSUME NEW c \in Caller, AnswerJoined(c) PROVE OpenIsCounted'
    BY <1>6 DEF AnswerJoined, Idle, ProbeCleared, OnlyHost
<1>7. ASSUME NEW c \in Caller, RefuseSlot(c) PROVE OpenIsCounted'
    BY <1>7 DEF RefuseSlot, Reports, OnlyCaller
<1>8. ASSUME NEW c \in Caller, GrantSlot(c) PROVE OpenIsCounted'
    BY <1>8 DEF GrantSlot, Goto, OnlyCaller
<1>9. ASSUME NEW c \in Caller, ChooseProbe(c) PROVE OpenIsCounted'
    BY <1>9 DEF ChooseProbe, OnlyHost
<1>10. ASSUME NEW c \in Caller, Wake(c) PROVE OpenIsCounted'
    BY <1>10 DEF Wake, OnlyCaller
<1>11. ASSUME NEW c \in Caller, BudgetExhausted(c) PROVE OpenIsCounted'
    BY <1>11 DEF BudgetExhausted, Reports, OnlyCaller
<1>12. ASSUME NEW c \in Caller, Send(c) PROVE OpenIsCounted'
    BY <1>12 DEF Send, Goto, OnlyCaller
<1>13. ASSUME NEW c \in Caller, RecordSuccess(c) PROVE OpenIsCounted'
    BY <1>13 DEF RecordSuccess, Reports, OnlyHost
<1>14. ASSUME NEW c \in Caller, RecordRetryableFailure(c) PROVE OpenIsCounted'
    BY <1>14 DEF RecordRetryableFailure, Strike, ProbeCleared, Reports, OnlyHost
<1>15. ASSUME NEW c \in Caller, RecordNonRetryableFailure(c) PROVE OpenIsCounted'
    BY <1>15 DEF RecordNonRetryableFailure, ProbeCleared, Reports, OnlyHost
<1>16. ASSUME NEW c \in Caller, ClearProbe(c) PROVE OpenIsCounted'
    BY <1>16 DEF ClearProbe, ProbeCleared, OnlyHost
<1>17. ASSUME Cooldown PROVE OpenIsCounted'
    BY <1>17 DEF Cooldown
<1>18. ASSUME NEW r \in Request, Expire(r) PROVE OpenIsCounted'
    BY <1>18 DEF Expire
<1>19. CASE UNCHANGED vars
    BY <1>19 DEF vars
<1> QED
    BY <1>1, <1>2, <1>3, <1>4, <1>5, <1>6, <1>7, <1>8, <1>9, <1>10,
       <1>11, <1>12, <1>13, <1>14, <1>15, <1>16, <1>17, <1>18, <1>19
       DEF Next, CallerStep

(* The inductive invariant of the gateway. *)
THEOREM GatewayInvariant == Spec => []GatewayInv
<1>1. Init => GatewayInv
    <2> SUFFICES ASSUME Init PROVE GatewayInv
        OBVIOUS
    <2>1. TypeOK
        <3>1. host \in Host
            BY GatewayAssumption DEF Init, Host
        <3>2. caller \in [Caller -> Call]
            BY IdleIsTyped DEF Init
        <3> QED
            BY <3>1, <3>2 DEF Init, TypeOK
    <2>2. OwnFlight /\ OpenIsCounted /\ ProbeWillEnd
        BY DEF Init, OwnFlight, OpenIsCounted, ProbeWillEnd, Idle, Answering
    <2> QED
        BY <2>1, <2>2 DEF GatewayInv
<1>2. GatewayInv /\ [Next]_vars => GatewayInv'
    BY TypeIsKept, FlightIsKept, CountIsKept, ProbeFlagIsKept DEF GatewayInv
<1> QED
    BY <1>1, <1>2, PTL DEF Spec

(* The variables of the gateway keep their types. *)
THEOREM GatewayTypeCorrect == Spec => []TypeOK
<1>1. GatewayInv => TypeOK
    BY DEF GatewayInv
<1> QED
    BY <1>1, GatewayInvariant, PTL

(* A probe in flight is always going to be over: somebody who clears its   *)
(* flag is on the way, for any number of stragglers that take themselves   *)
(* for the probe, fail, or close and open the circuit in the meantime.     *)
THEOREM NoHostIsLockedOut == Spec => []ProbeWillEnd
<1>1. GatewayInv => ProbeWillEnd
    BY DEF GatewayInv
<1> QED
    BY <1>1, GatewayInvariant, PTL

(* Identical requests in flight are one, and what is cached is not fetched. *)
THEOREM FlightsAreShared == Spec => []OneFetchPerRequest
<1>1. GatewayInv => OneFetchPerRequest
    BY DEF GatewayInv, OwnFlight, OneFetchPerRequest
<1> QED
    BY <1>1, GatewayInvariant, PTL

(* One retryable failure under an open circuit starts a new cooldown,      *)
(* whatever the threshold.                                                 *)
THEOREM OpenCircuitReopens == Spec => OpenCircuitIsStrict
<1> DEFINE Reopens == \A c \in Caller :
                        /\ host.circuit # "closed"
                        /\ At(c, "strike") /\ ~At(c, "strike")'
                        => host'.circuit = "cooling"
<1>1. GatewayInv /\ [Next]_vars => [Reopens]_vars
    <2> SUFFICES ASSUME GatewayInv, Next, NEW d \in Caller,
                        host.circuit # "closed",
                        At(d, "strike"), ~At(d, "strike")'
                 PROVE  host'.circuit = "cooling"
        OBVIOUS
    <2> USE DEF GatewayInv, TypeOK, At, Becomes
    <2>1. RecordRetryableFailure(d)
        <3>1. \A c \in Caller, r \in Request :
                ~(AnswerFromCache(c, r) \/ Fetch(c, r) \/ Join(c, r))
            BY DEF AnswerFromCache, Fetch, Join, OnlyCaller
        <3>2. ~Cooldown /\ \A r \in Request : ~Expire(r)
            BY DEF Cooldown, Expire
        <3>3. PICK c \in Caller : CallerStep(c)
            BY <3>1, <3>2 DEF Next
        <3>4. ~Finish(c)
            BY DEF Finish, Waiting
        <3>5. c = d
            BY <3>3, <3>4 DEF CallerStep, StoreResponse, AnswerJoined, RefuseSlot,
               GrantSlot, ChooseProbe, Wake, BudgetExhausted, Send, RecordSuccess,
               RecordRetryableFailure, RecordNonRetryableFailure, ClearProbe,
               Goto, Reports
        <3> QED
            BY <3>3, <3>4, <3>5 DEF CallerStep, StoreResponse, AnswerJoined,
               RefuseSlot, GrantSlot, ChooseProbe, Wake, BudgetExhausted, Send,
               RecordSuccess, RecordNonRetryableFailure, ClearProbe
    <2>2. host.failures + 1 >= Threshold
        BY GatewayAssumption DEF OpenIsCounted
    <2> QED
        BY <2>1, <2>2 DEF RecordRetryableFailure, Strike
<1> QED
    BY <1>1, GatewayInvariant, PTL DEF Spec, OpenCircuitIsStrict
=============================================================================
