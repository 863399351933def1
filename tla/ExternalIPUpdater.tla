-------------------------- MODULE ExternalIPUpdater --------------------------
(***************************************************************************)
(* The dynamic external IP updater (package dynamicip in                   *)
(* src/utils/crypto/crypto.go).                                            *)
(*                                                                         *)
(* NewExternalIPUpdater starts one goroutine, UpdateExternalIP, that waits *)
(* on a timer, resolves the node's public IP with the configured resolver *)
(* and stores it in the node's DynamicIPDesc, then re-arms the timer for   *)
(* updateTimeout. Stop is meant to end that goroutine by closing           *)
(* tickerCloser. The node calls Stop when it shuts down.                   *)
(*                                                                         *)
(* Time is discrete; a resolution may take several ticks (the DNS dialer  *)
(* has a 10 s timeout). An address is a model value; "unparsable" is an  *)
(* ifconfig.co body that net.ParseIP refuses.                              *)
(***************************************************************************)
EXTENDS Naturals

CONSTANTS
  Enable,         \* the dynamic-IP option: NewExternalIPUpdater's enable
  Resolver,       \* "opendns", "ifconfig" or anything else (NoResolver)
  Addrs,          \* IP addresses a resolver may return
  InitIP,         \* the DynamicIPDesc's address at start
  UpdateTimeout,  \* updateTimeout, in ticks
  MaxTime         \* bound on the clock

ASSUME InitIP \in Addrs /\ UpdateTimeout \in Nat \ {0} /\ Enable \in BOOLEAN

VARIABLES
  now,       \* the clock
  timerAt,   \* when the timer's channel becomes ready
  pc,        \* the updater goroutine: "none" (not started), "wait" (in the select), "fetch" (in updateIP), "exited"
  closer,    \* u.tickerCloser: "nil" (never made) or "closed"
  ip,        \* u.ip.Ip().IP
  stopped    \* Stop: "no" (not called), "returned", "panicked"

vars == <<now, timerAt, pc, closer, ip, stopped>>

(* What dynamicResolver.Resolve() may return: NoResolver always fails;    *)
(* OpenDNS fails or returns the first address of the lookup; ifconfig.co  *)
(* fails or returns the body with CR and LF removed, which may not parse. *)
ResolveResults ==
  CASE Resolver = "opendns"  -> {"error"} \cup Addrs
    [] Resolver = "ifconfig" -> {"error", "unparsable"} \cup Addrs
    [] OTHER                 -> {"error"}

Alive == stopped # "panicked"

-----------------------------------------------------------------------------

(* NewExternalIPUpdater: with enable, an ExternalIPUpdater whose           *)
(* tickerCloser is never made, and its goroutine, which starts a timer of  *)
(* updateTimeout; otherwise a NoExternalIPUpdater.                         *)
Init ==
  /\ now = 0
  /\ timerAt = UpdateTimeout
  /\ pc = IF Enable THEN "wait" ELSE "none"
  /\ closer = "nil"
  /\ ip = InitIP
  /\ stopped = "no"

\* The select takes the timer case.
TimerFires ==
  /\ Alive /\ pc = "wait" /\ timerAt <= now
  /\ pc' = "fetch"
  /\ UNCHANGED <<now, timerAt, closer, ip, stopped>>

(* updateIP, then timer.Reset(u.updateTimeout): a failed fetch or an       *)
(* address ParseIP refuses leaves the IP; otherwise UpdateIP stores it.    *)
UpdateIP ==
  /\ Alive /\ pc = "fetch"
  /\ \E r \in ResolveResults : ip' = IF r \in Addrs THEN r ELSE ip
  /\ pc' = "wait"
  /\ timerAt' = now + UpdateTimeout
  /\ UNCHANGED <<now, closer, stopped>>

\* The select takes the tickerCloser case (a nil channel is never ready).
Exit ==
  /\ Alive /\ pc = "wait" /\ closer = "closed"
  /\ pc' = "exited"
  /\ UNCHANGED <<now, timerAt, closer, ip, stopped>>

(* Stop: NoExternalIPUpdater.Stop does nothing; ExternalIPUpdater.Stop     *)
(* closes u.tickerCloser, and closing a nil channel panics.                *)
Stop ==
  /\ Alive /\ stopped = "no"
  /\ IF Enable /\ closer = "nil"
       THEN stopped' = "panicked" /\ UNCHANGED closer
       ELSE stopped' = "returned" /\ closer' = IF Enable THEN "closed" ELSE closer
  /\ UNCHANGED <<now, timerAt, pc, ip>>

Tick ==
  /\ Alive /\ now < MaxTime
  /\ now' = now + 1
  /\ UNCHANGED <<timerAt, pc, closer, ip, stopped>>

Next == TimerFires \/ UpdateIP \/ Exit \/ Stop \/ Tick

(* A resolution that may never return: http.Get with the default client,  *)
(* which has no timeout, against a server that accepts and never answers. *)
(* OpenDNS's dialer times out after 10 s and the resolver's reads time out *)
(* too; NoResolver returns at once.                                        *)
MayHang == Resolver = "ifconfig"

(* The Go scheduler runs a goroutine whose select case is ready, and the   *)
(* clock runs; a resolution returns unless it may hang; nothing forces the *)
(* node to call Stop.                                                      *)
Spec == Init /\ [][Next]_vars
          /\ WF_vars(TimerFires) /\ WF_vars(~MayHang /\ UpdateIP) /\ WF_vars(Exit)
          /\ WF_vars(Tick)

-----------------------------------------------------------------------------

TypeOK ==
  /\ now \in 0..MaxTime /\ timerAt \in Nat
  /\ pc \in {"none", "wait", "fetch", "exited"}
  /\ closer \in {"nil", "closed"} /\ ip \in Addrs
  /\ stopped \in {"no", "returned", "panicked"}

(* Once the node calls Stop, it returns and the updater goroutine ends:    *)
(* ExternalIPUpdaterInterface.Stop is the node's way to shut the updater   *)
(* down.                                                                    *)
StopEndsUpdater ==
  (stopped # "no") ~> (stopped = "returned" /\ pc \in {"none", "exited"})

=============================================================================
