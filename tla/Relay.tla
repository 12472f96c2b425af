------------------------------- MODULE Relay -------------------------------
(***************************************************************************)
(* The relay (src/relay/websocket.py, src/relay/sessions.py) between one   *)
(* desktop and its phones: sockets, sessions, pairing.  Every socket has a *)
(* handler of its own, an asyncio task whose awaits are the places where   *)
(* another handler runs.  A socket breaks at any time and takes what is in *)
(* flight on it along; the device opens the next one, while the handler of *)
(* the old one may not have noticed, and a send to a dead socket succeeds  *)
(* or fails.  The relay may restart, and keeps nothing.  At first every    *)
(* device is connected, and no phone is paired.                            *)
(*                                                                         *)
(* The desktop's part of pairing is src/aura/companion/manager.py and      *)
(* auth.py, the phone's src/companion-web/src/api/socket.ts.  A message    *)
(* that is neither a hello nor part of pairing is one step: what it says   *)
(* is the matter of module Companion.                                      *)
(*                                                                         *)
(* A definition named X_Something beside X is X with a plausible defect,   *)
(* used by the mutation runs of PROJECT.json only.                         *)
(***************************************************************************)
EXTENDS PhoneIds, Naturals

CONSTANTS
  Desktop,    \* the desktop's device id
  MaxBreaks,  \* bound: sockets that break, restarts of the relay
  MaxCodes,   \* bound: pairing codes made
  MaxEvents   \* bound: the two together

ASSUME DevicesAssumption == Desktop \notin Phones
ASSUME BoundAssumption == MaxBreaks \in Nat /\ MaxCodes \in Nat /\ MaxEvents \in Nat

Devices == Phones \union {Desktop}
Sockets == 1..(MaxBreaks + 1)
Codes == 1..MaxCodes
Stages == {"none", "hello", "welcoming", "serving", "ended"}

\* The devices.
VARIABLES
  sock,      \* number of the newest socket
  up,        \* it is open
  token,     \* the phone's stored token, by the code that paired it, 0 for none
  held,      \* deviceToken, the one it sends in a hello
  code,      \* the newest pairing code of the desktop
  valid,     \* codes that pair: neither used, replaced nor expired
  granted,   \* history: the phones each code paired
  expired    \* codes whose token is more than thirty days old

device == <<sock, up, token, held, code, valid, granted, expired>>

\* The relay.
VARIABLES
  handler,   \* where the handler of each socket is
  claims,    \* the token in the hello of each socket, until it was verified
  session,   \* the socket _sessions holds for a device, 0 for none
  authed,    \* whether that session is authenticated
  failing,   \* a send to the device has failed, and awaits its unregister
  paired     \* _paired_phones

relay == <<handler, claims, session, authed, failing, paired>>

\* What is under way, and what the properties alone read.
VARIABLES
  verify,    \* pair.verify, phone and code, on the way to the desktop
  confirmed, \* pair.confirmed, phone and the code of its token, on the way to the relay
  stale,     \* history: an older socket's end, or a failed send, removed the session
  restarted, \* history: the relay has restarted
  breaks     \* what has broken so far

vars == <<device, relay, verify, confirmed, stale, restarted, breaks>>

-----------------------------------------------------------------------------
Init ==
  /\ sock = [d \in Devices |-> 1]
  /\ up = [d \in Devices |-> TRUE]
  /\ token = [p \in Phones |-> 0] /\ held = [p \in Phones |-> 0]
  /\ code = 0 /\ valid = {} /\ granted = [k \in Codes |-> {}] /\ expired = {}
  /\ handler = [d \in Devices |-> [n \in Sockets |-> IF n = 1 THEN "serving" ELSE "none"]]
  /\ claims = [d \in Devices |-> [n \in Sockets |-> 0]]
  /\ session = [d \in Devices |-> 1] /\ authed = [d \in Devices |-> d = Desktop]
  /\ failing = [d \in Devices |-> FALSE]
  /\ paired = {}
  /\ verify = {} /\ confirmed = {}
  /\ stale = [d \in Devices |-> FALSE] /\ restarted = FALSE /\ breaks = 0

\* The bounds leave room for one more.
Room == breaks + code < MaxEvents

Live(d, n) == up[d] /\ sock[d] = n

\* The sessions whose socket is dead.
Dead == {d \in Devices : session[d] # 0 /\ ~Live(d, session[d])}

\* Sends to the devices of D, any of which may fail if its socket is dead.
SendTo(D) == \E F \in SUBSET (D \intersect Dead) :
               failing' = [d \in Devices |-> failing[d] \/ d \in F]

\* The device's newest socket is open, the welcome was read on it, and its
\* handler reads from it.
Served(d) == up[d] /\ handler[d][sock[d]] = "serving"

-----------------------------------------------------------------------------
(* Sockets.                                                                *)

\* _ws_loop and _open: the next socket, and its hello.  The phone sends the token
\* it holds, or, after a connect(), the stored one.
Connect(d) ==
  /\ ~up[d]
  /\ sock' = [sock EXCEPT ![d] = @ + 1]
  /\ up' = [up EXCEPT ![d] = TRUE]
  /\ handler' = [handler EXCEPT ![d][sock[d] + 1] = "hello"]
  /\ IF d \in Phones
       THEN /\ \/ UNCHANGED held
               \/ held' = [held EXCEPT ![d] = token[d]]
            /\ claims' = [claims EXCEPT ![d][sock[d] + 1] = held'[d]]
       ELSE UNCHANGED <<held, claims>>
  /\ UNCHANGED <<token, code, valid, granted, expired, session, authed, failing,
                 paired, verify, confirmed, stale, restarted, breaks>>

\* What is in flight to or from device d is gone.
InFlightLost(D) ==
  /\ verify' = IF Desktop \in D THEN {} ELSE verify
  /\ confirmed' = IF Desktop \in D THEN {} ELSE confirmed

\* The network, or close(): only the device's end knows at once.
Drop(d) ==
  /\ up[d] /\ breaks < MaxBreaks /\ Room
  /\ breaks' = breaks + 1
  /\ up' = [up EXCEPT ![d] = FALSE]
  /\ InFlightLost({d})
  /\ UNCHANGED <<sock, token, held, code, valid, granted, expired, relay, stale, restarted>>

\* The relay restarts: all it had was in memory.
Restart ==
  /\ breaks < MaxBreaks /\ Room
  /\ breaks' = breaks + 1
  /\ restarted' = TRUE
  /\ up' = [d \in Devices |-> FALSE]
  /\ handler' = [d \in Devices |-> [n \in Sockets |->
                   IF handler[d][n] = "none" THEN "none" ELSE "ended"]]
  /\ session' = [d \in Devices |-> 0] /\ authed' = [d \in Devices |-> FALSE]
  /\ failing' = [d \in Devices |-> FALSE]
  /\ claims' = [d \in Devices |-> [n \in Sockets |-> 0]]
  /\ paired' = {}
  /\ InFlightLost(Devices)
  /\ UNCHANGED <<sock, token, held, code, valid, granted, expired, stale>>

-----------------------------------------------------------------------------
(* The relay's handlers.                                                   *)

\* A session that is there is kept.
Register_FirstWins(d, n) ==
  /\ session' = [session EXCEPT ![d] = IF @ = 0 THEN n ELSE @]
  /\ authed' = [authed EXCEPT ![d] = (d = Desktop)]
  /\ stale' = [stale EXCEPT ![d] = FALSE]

\* register, and the authentication a desktop gets at once.
Register(d, n) ==
  /\ session' = [session EXCEPT ![d] = n]
  /\ authed' = [authed EXCEPT ![d] = (d = Desktop)]
  /\ stale' = [stale EXCEPT ![d] = FALSE]

Hello(d, n) ==
  /\ handler[d][n] = "hello"
  /\ IF Live(d, n)
       THEN /\ Register(d, n)
            /\ handler' = [handler EXCEPT ![d][n] = "welcoming"]
            /\ UNCHANGED claims
       ELSE /\ handler' = [handler EXCEPT ![d][n] = "ended"]
            /\ claims' = [claims EXCEPT ![d][n] = 0]
            /\ UNCHANGED <<session, authed, stale>>
  /\ UNCHANGED <<device, failing, paired, verify, confirmed, restarted, breaks>>

\* verify_token.
Verified(t) == t # 0 /\ t \notin expired

\* The session is taken to be there still.
Welcomed_NoSession(d, n) ==
  /\ handler[d][n] = "welcoming"
  /\ handler' = [handler EXCEPT ![d][n] = "serving"]
  /\ SendTo(Devices)
  /\ authed' = [authed EXCEPT ![d] = @ \/ Verified(claims[d][n])]
  /\ claims' = [claims EXCEPT ![d][n] = 0]
  /\ UNCHANGED <<device, session, paired, verify, confirmed, stale, restarted,
                 breaks>>

\* The welcome and the broadcast went out; a token in the hello that has not
\* expired counts for whichever session the device has by now.  With any other
\* the phone is served all the same.
Welcomed(d, n) ==
  /\ handler[d][n] = "welcoming"
  /\ handler' = [handler EXCEPT ![d][n] = "serving"]
  /\ SendTo(Devices)
  /\ authed' = [authed EXCEPT ![d] = @ \/ (Verified(claims[d][n]) /\ session[d] # 0)]
  /\ claims' = [claims EXCEPT ![d][n] = 0]
  /\ UNCHANGED <<device, session, paired, verify, confirmed, stale, restarted,
                 breaks>>

\* The welcome failed, before the try whose finally unregisters.
WelcomeFailed(d, n) ==
  /\ handler[d][n] = "welcoming" /\ ~Live(d, n)
  /\ handler' = [handler EXCEPT ![d][n] = "ended"]
  /\ claims' = [claims EXCEPT ![d][n] = 0]
  /\ UNCHANGED <<device, session, authed, failing, paired, verify, confirmed,
                 stale, restarted, breaks>>

\* unregister takes the device id, whatever socket its session holds by now.
Unregister(d) ==
  /\ session' = [session EXCEPT ![d] = 0]
  /\ authed' = [authed EXCEPT ![d] = FALSE]
  /\ stale' = [stale EXCEPT ![d] = @ \/ (session[d] # 0 /\ d \notin Dead)]

\* The finally of a handler whose socket is gone.
Closed(d, n) ==
  /\ handler[d][n] = "serving" /\ ~Live(d, n)
  /\ handler' = [handler EXCEPT ![d][n] = "ended"]
  /\ Unregister(d)
  /\ SendTo(Devices \ {d})
  /\ UNCHANGED <<device, claims, paired, verify, confirmed, restarted, breaks>>

\* send_to came back with an error.
SendFailed(d) ==
  /\ failing[d]
  /\ failing' = [failing EXCEPT ![d] = FALSE]
  /\ Unregister(d)
  /\ UNCHANGED <<device, handler, claims, paired, verify, confirmed, restarted,
                 breaks>>

\* A phone whose desktop is away forgets its token too.
Say_OfflineUnpairs(p) ==
  /\ Served(p) /\ token[p] # 0
  /\ token' = IF authed[p] /\ session[Desktop] # 0 THEN token ELSE [token EXCEPT ![p] = 0]
  /\ SendTo(IF authed[p] /\ p \in paired THEN {Desktop} ELSE {})
  /\ UNCHANGED <<sock, up, held, code, valid, granted, expired, handler, claims,
                 session, authed, paired, verify, confirmed, stale, restarted,
                 breaks>>

\* A phone that is paired says something to the desktop: auth.error wipes its
\* stored state, not the token it holds; otherwise the message is routed, or
\* answered.
Say(p) ==
  /\ Served(p) /\ token[p] # 0
  /\ token' = IF authed[p] THEN token ELSE [token EXCEPT ![p] = 0]
  /\ SendTo(IF authed[p] /\ p \in paired THEN {Desktop} ELSE {})
  /\ UNCHANGED <<sock, up, held, code, valid, granted, expired, handler, claims,
                 session, authed, paired, verify, confirmed, stale, restarted,
                 breaks>>

-----------------------------------------------------------------------------
(* Pairing.                                                                *)

\* start_pairing: a code in place of the one before.
StartPairing ==
  /\ code < MaxCodes /\ Room
  /\ code' = code + 1
  /\ valid' = {code + 1}
  /\ UNCHANGED <<sock, up, token, held, granted, expired, relay, verify, confirmed,
                 stale, restarted, breaks>>

\* cancel_pairing, or five minutes have passed.
CodeEnds ==
  /\ valid # {}
  /\ valid' = {}
  /\ UNCHANGED <<sock, up, token, held, code, granted, expired, relay, verify,
                 confirmed, stale, restarted, breaks>>

\* pair.connect with code k: typed, or scanned as the ticket that stands for it.
PairConnect(p, k) ==
  /\ Served(p) /\ k <= code
  /\ SendTo({Desktop})
  /\ verify' = IF session[Desktop] # 0 /\ Desktop \notin Dead
                 THEN verify \union {<<p, k>>} ELSE verify
  /\ UNCHANGED <<device, handler, claims, session, authed, paired, confirmed,
                 stale, restarted, breaks>>

\* _handle_pair_verify: a code pairs once; a refusal names no device, and the
\* relay can route it to nobody.
PairVerify(p, k) ==
  /\ <<p, k>> \in verify /\ Served(Desktop)
  /\ verify' = verify \ {<<p, k>>}
  /\ IF k \in valid
       THEN /\ valid' = valid \ {k}
            /\ granted' = [granted EXCEPT ![k] = @ \union {p}]
            /\ confirmed' = confirmed \union {<<p, k>>}
       ELSE UNCHANGED <<valid, granted, confirmed>>
  /\ UNCHANGED <<sock, up, token, held, code, expired, relay, stale, restarted,
                 breaks>>

\* pair.confirmed: the phone's session is authenticated, the pair recorded, the
\* token sent on; from a desktop without a session it is routed to nobody.  The
\* phone keeps the token if pair() still listens, for thirty seconds.
PairConfirmed(p, k) ==
  /\ <<p, k>> \in confirmed /\ Served(Desktop)
  /\ confirmed' = confirmed \ {<<p, k>>}
  /\ IF session[Desktop] = 0
       THEN UNCHANGED <<token, held, authed, paired, failing>>
       ELSE /\ \/ UNCHANGED <<token, held>>
               \/ /\ session[p] # 0 /\ p \notin Dead
                  /\ token' = [token EXCEPT ![p] = k] /\ held' = [held EXCEPT ![p] = k]
            /\ authed' = [authed EXCEPT ![p] = @ \/ session[p] # 0]
            /\ paired' = paired \union {p}
            /\ SendTo({p})
  /\ UNCHANGED <<sock, up, code, valid, granted, expired, handler, claims, session,
                 verify, stale, restarted, breaks>>

\* Thirty days after a token was made, when its confirmation is long through.
Expires(k) ==
  /\ granted[k] # {} /\ k \notin expired
  /\ \A p \in Phones : <<p, k>> \notin confirmed
  /\ expired' = expired \union {k}
  /\ UNCHANGED <<sock, up, token, held, code, valid, granted, relay, verify,
                 confirmed, stale, restarted, breaks>>

-----------------------------------------------------------------------------
Next ==
  \/ \E d \in Devices : Connect(d) \/ Drop(d) \/ SendFailed(d)
  \/ \E d \in Devices, n \in Sockets :
       Hello(d, n) \/ Welcomed(d, n) \/ WelcomeFailed(d, n) \/ Closed(d, n)
  \/ Restart \/ StartPairing \/ CodeEnds
  \/ \E p \in Phones : Say(p)
  \/ \E p \in Phones, k \in Codes :
       PairConnect(p, k) \/ PairVerify(p, k) \/ PairConfirmed(p, k)
  \/ \E k \in Codes : Expires(k)

Spec == Init /\ [][Next]_vars

-----------------------------------------------------------------------------
(* Properties.                                                             *)

\* Types; only a session that is there is authenticated.
TypeOK ==
  /\ sock \in [Devices -> 0..(MaxBreaks + 1)]
  /\ up \in [Devices -> BOOLEAN]
  /\ token \in [Phones -> 0..MaxCodes] /\ held \in [Phones -> 0..MaxCodes]
  /\ code \in 0..MaxCodes /\ valid \subseteq Codes /\ granted \in [Codes -> SUBSET Phones]
  /\ expired \subseteq Codes
  /\ handler \in [Devices -> [Sockets -> Stages]]
  /\ claims \in [Devices -> [Sockets -> 0..MaxCodes]]
  /\ session \in [Devices -> 0..(MaxBreaks + 1)] /\ authed \in [Devices -> BOOLEAN]
  /\ failing \in [Devices -> BOOLEAN]
  /\ paired \subseteq Phones
  /\ verify \subseteq Phones \X Codes /\ confirmed \subseteq Phones \X Codes
  /\ stale \in [Devices -> BOOLEAN] /\ restarted \in BOOLEAN /\ breaks \in 0..MaxBreaks
  /\ \A d \in Devices : authed[d] => session[d] # 0

\* A device whose handler serves it is the one its session names, so that what
\* is sent to it arrives, unless the end of an older socket of the device, or a
\* failed send to it, took the session with it.
Reachable ==
  \A d \in Devices : Served(d) /\ ~stale[d] => session[d] = sock[d]

\* A phone that holds a token which has not expired and is served gets through to
\* its desktop: both can be reached, and the phone is authenticated and paired,
\* unless its session was taken, or the relay has restarted since, which restores
\* the one from the token and the other never.
GetsThrough ==
  /\ Reachable
  /\ \A p \in Phones :
       held[p] # 0 /\ held[p] \notin expired /\ Served(p) /\ ~stale[p] =>
         authed[p] /\ (restarted \/ p \in paired)

\* A phone is told that it is not paired, and so forgets its stored token, only
\* when that has expired or its session was taken that way; and a code that was
\* replaced while a phone's presentation of it was under way pairs nobody any more.
PairingKept ==
  [][/\ \A p \in Phones :
          token[p] # 0 /\ token'[p] = 0 => stale[p] \/ token[p] \in expired
     /\ \A k \in Codes : granted'[k] # granted[k] => k = code]_vars

\* A pairing code pairs one phone at most, however often and by whichever way,
\* ticket or typed, it is presented before the first confirmation arrives; a
\* phone's token is its own, and only a phone that some code paired is
\* authenticated.
OnePhonePerCode ==
  /\ \A k \in Codes : \A p, q \in granted[k] : p = q
  /\ \A p \in Phones : /\ token[p] # 0 => p \in granted[token[p]]
                       /\ held[p] # 0 => p \in granted[held[p]]
                       /\ authed[p] => \E k \in Codes : p \in granted[k]

\* A pairing is one phone's and lasts for its thirty days: whoever has it gets
\* through with it, after any number of broken sockets, and nobody else got it from
\* the same code.
PairingHolds == GetsThrough /\ OnePhonePerCode
=============================================================================
