----------------------------- MODULE PhoneProofs -----------------------------
(***************************************************************************)
(* Proofs about phones: their sockets, sessions and pairings (Relay), and  *)
(* the chats they send (Companion), for any number of each.                *)
(*                                                                         *)
(* Of Relay: that a pairing is one phone's and lasts until it expires      *)
(* (PairingHolds), and that a phone never forgets it before, unless its    *)
(* session was taken (PairingKept).  Both speak of a device that is served. *)
(* What makes them inductive is how it came to be: a session names no      *)
(* socket before its hello, and the newest one from then on (Held); a      *)
(* token is carried by the hello, or was received after it, at which       *)
(* moment the session was authenticated (Tokens); whatever a phone is      *)
(* recognised by, stored, held, claimed or on its way, goes back to a code *)
(* that paired it (Known); and a code that is still to be used is the      *)
(* newest, and has paired nobody (Unused).                                 *)
(*                                                                         *)
(* Of Companion: that each chat a phone sends is answered, to that phone   *)
(* and once (Answered).  The invariant (ChatInv) follows a chat on its way: *)
(* a phone sends its own, each once (Coming); the one that is pending was  *)
(* taken and belongs to the phone noted with it, and the one whose turn    *)
(* runs was taken too (Taken); the turn's signals come in the order of its *)
(* thread (Thread); what is sent back is the phone's own, of the turn of   *)
(* that chat (Going); and what a screen waits for is under way, or was     *)
(* missed (Awaited).                                                       *)
(***************************************************************************)
EXTENDS Relay, Companion, TLAPS

\* Each socket after the first follows a break; those to come have no handler.
Numbered ==
  \A d \in Devices :
    /\ sock[d] \in Sockets
    /\ sock[d] <= breaks + (IF up[d] THEN 1 ELSE 0)
    /\ \A n \in Sockets : n > sock[d] => handler[d][n] = "none"

\* Where the handler of the newest socket is.
Newest(d) == handler[d][sock[d]]

\* No session names a socket that has not been greeted, and the newest one that
\* was is named unless somebody else took the session.
Held ==
  \A d \in Devices :
    /\ \A n \in Sockets : handler[d][n] \in {"none", "hello"} => session[d] # n
    /\ up[d] /\ Newest(d) \in {"welcoming", "serving"} /\ ~stale[d] => session[d] = sock[d]

\* What a phone that holds a token can count on, by how far its handler has come.
Tokens ==
  \A p \in Phones :
    /\ token[p] # 0 => held[p] = token[p]
    /\ held[p] # 0 => restarted \/ p \in paired
    /\ held[p] # 0 /\ held[p] \notin expired =>
         /\ Newest(p) = "hello" => claims[p][sock[p]] = held[p]
         /\ up[p] /\ ~stale[p] =>
              /\ Newest(p) = "welcoming" => claims[p][sock[p]] = held[p] \/ authed[p]
              /\ Newest(p) = "serving" => authed[p]

\* A code that is still to be used is the newest, and has paired nobody.
Unused ==
  /\ valid \subseteq {code}
  /\ \A k \in Codes :
       /\ k > code \/ k \in valid => granted[k] = {}
       /\ \A p, q \in granted[k] : p = q

WasGranted(p) == \E k \in Codes : p \in granted[k]

\* Token t, if there is one, is of a code that paired phone p.
IsOf(t, p) == t # 0 => t \in Codes /\ p \in granted[t]

\* Whatever a phone may be recognised by goes back to a code that paired it.
Known ==
  \A p \in Phones :
    /\ IsOf(token[p], p) /\ IsOf(held[p], p)
    /\ \A n \in Sockets : IsOf(claims[p][n], p)
    /\ \A k \in Codes : <<p, k>> \in confirmed => p \in granted[k]
    /\ authed[p] => WasGranted(p)

IInv == TypeOK /\ Numbered /\ Held /\ Tokens /\ Unused /\ Known

-----------------------------------------------------------------------------
\* What moving the handler of one socket does to all of them.
LEMMA Moves ==
  ASSUME handler \in [Devices -> [Sockets -> Stages]], NEW d \in Devices, NEW n \in Sockets,
         NEW s \in Stages
  PROVE  LET h == [handler EXCEPT ![d][n] = s]
         IN  /\ h \in [Devices -> [Sockets -> Stages]]
             /\ \A e \in Devices, m \in Sockets :
                  h[e][m] = IF e = d /\ m = n THEN s ELSE handler[e][m]
OBVIOUS

\* What changing the token of one hello does to all of them.
LEMMA Carries ==
  ASSUME claims \in [Devices -> [Sockets -> 0..MaxCodes]], NEW d \in Devices, NEW n \in Sockets,
         NEW t \in 0..MaxCodes
  PROVE  LET h == [claims EXCEPT ![d][n] = t]
         IN  /\ h \in [Devices -> [Sockets -> 0..MaxCodes]]
             /\ \A e \in Devices, m \in Sockets :
                  h[e][m] = IF e = d /\ m = n THEN t ELSE claims[e][m]
OBVIOUS

\* What a phone sends in a hello is a token it holds or has stored.
LEMMA Presents ==
  ASSUME held \in [Phones -> 0..MaxCodes], token \in [Phones -> 0..MaxCodes], NEW d,
         held' = held \/ (d \in Phones /\ held' = [held EXCEPT ![d] = token[d]])
  PROVE  held' \in [Phones -> 0..MaxCodes]
OBVIOUS

\* A device that is about to connect has a socket left: each but the first follows a
\* break.
LEMMA NextSocket ==
  ASSUME TypeOK, Numbered, NEW d \in Devices, ~up[d]
  PROVE  sock[d] + 1 \in Sockets
<1>1. breaks \in 0..MaxBreaks
  BY DEF TypeOK
<1>2. sock[d] \in Sockets /\ sock[d] <= breaks
  BY <1>1, BoundAssumption DEF Numbered
<1> QED
  BY <1>1, <1>2, BoundAssumption DEF Sockets

\* A send marks devices, whichever they are.
LEMMA SendMarks ==
  ASSUME failing \in [Devices -> BOOLEAN], NEW D, SendTo(D)
  PROVE  failing' \in [Devices -> BOOLEAN]
BY DEF SendTo

\* Every step keeps the types, and the sockets within the breaks.
LEMMA TypeStep == TypeOK /\ Numbered /\ [Next]_vars => (TypeOK /\ Numbered)'
<1> SUFFICES ASSUME TypeOK, Numbered, [Next]_vars PROVE (TypeOK /\ Numbered)'
  OBVIOUS
<1>0. /\ Desktop \notin Phones /\ MaxBreaks \in Nat /\ MaxCodes \in Nat
      /\ Phones \subseteq Devices /\ Desktop \in Devices
      /\ \A d \in Devices : (d = Desktop) \in BOOLEAN
      /\ Sockets \subseteq 0..(MaxBreaks + 1) /\ 0 \in 0..(MaxBreaks + 1)
      /\ Codes \subseteq 0..MaxCodes /\ {"none", "hello", "welcoming", "serving", "ended"} = Stages
      /\ TRUE \in BOOLEAN /\ FALSE \in BOOLEAN
  BY DevicesAssumption, BoundAssumption DEF Devices, Sockets, Codes, Stages
<1>h. /\ handler \in [Devices -> [Sockets -> Stages]] /\ failing \in [Devices -> BOOLEAN]
      /\ claims \in [Devices -> [Sockets -> 0..MaxCodes]] /\ 0 \in 0..MaxCodes
  BY BoundAssumption DEF TypeOK
\* The token of a hello that was looked at.
<1>c. ASSUME NEW d \in Devices, NEW n \in Sockets, claims' = [claims EXCEPT ![d][n] = 0]
      PROVE  claims' \in [Devices -> [Sockets -> 0..MaxCodes]]
  BY <1>h, <1>c, Carries
<1> USE <1>0, <1>h DEF TypeOK, Numbered, device, relay
<1>1. ASSUME NEW d \in Devices, Connect(d)
      PROVE  (TypeOK /\ Numbered)'
  <2>1. sock[d] + 1 \in Sockets /\ sock' \in [Devices -> 0 .. MaxBreaks + 1]
    <3>1. sock[d] + 1 \in Sockets
      BY <1>1, NextSocket DEF Connect
    <3> QED BY <1>1, <3>1 DEF Connect
  <2>2. /\ handler' \in [Devices -> [Sockets -> Stages]]
        /\ \A e \in Devices, m \in Sockets :
             handler'[e][m] = IF e = d /\ m = sock[d] + 1 THEN "hello" ELSE handler[e][m]
    BY <1>1, <2>1, Moves DEF Connect
  <2>5. held' \in [Phones -> 0..MaxCodes] /\ up' \in [Devices -> BOOLEAN]
    <3>1. held' = held \/ (d \in Phones /\ held' = [held EXCEPT ![d] = token[d]])
      BY <1>1 DEF Connect
    <3>2. held' \in [Phones -> 0..MaxCodes]
      BY <3>1, Presents
    <3> QED BY <1>1, <3>2 DEF Connect
  <2>3. claims' \in [Devices -> [Sockets -> 0..MaxCodes]]
    <3>1. CASE d \in Phones
      <4>1. held'[d] \in 0..MaxCodes /\ claims' = [claims EXCEPT ![d][sock[d] + 1] = held'[d]]
        BY <1>1, <2>5, <3>1 DEF Connect
      <4> QED BY <2>1, <4>1, Carries
    <3>2. CASE d \notin Phones
      BY <1>1, <3>2 DEF Connect
    <3> QED BY <3>1, <3>2
  <2>4. Numbered'
    BY <1>1, <2>1, <2>2 DEF Connect
  <2> QED
    BY <1>1, <2>1, <2>2, <2>3, <2>4, <2>5 DEF Connect
<1>2. ASSUME NEW d \in Devices, Drop(d)
      PROVE  (TypeOK /\ Numbered)'
  BY <1>2, Moves, SendMarks, SMTT(30) DEF Drop, InFlightLost
<1>3. ASSUME NEW d \in Devices, SendFailed(d)
      PROVE  (TypeOK /\ Numbered)'
  BY <1>3, Moves, SendMarks, SMTT(30) DEF SendFailed, Unregister
<1>4. ASSUME NEW d \in Devices, NEW n \in Sockets, Hello(d, n)
      PROVE  (TypeOK /\ Numbered)'
  <2>1. PICK s \in Stages : s # "none" /\ handler' = [handler EXCEPT ![d][n] = s]
    BY <1>4 DEF Hello
  <2>2. /\ handler' \in [Devices -> [Sockets -> Stages]]
        /\ \A e \in Devices, m \in Sockets :
             handler'[e][m] = IF e = d /\ m = n THEN s ELSE handler[e][m]
    BY <1>4, <2>1, Moves
  <2>3. Numbered'
    BY <1>4, <2>2 DEF Hello
  <2>4. CASE Live(d, n)
    <3>1. session' = [session EXCEPT ![d] = n] /\ stale' = [stale EXCEPT ![d] = FALSE]
      BY <1>4, <2>4 DEF Hello, Register
    <3>2. authed' = [authed EXCEPT ![d] = (d = Desktop)]
      BY <1>4, <2>4 DEF Hello, Register
    <3>3. \A e \in Devices : authed'[e] => session'[e] # 0
      <4>1. n # 0
        BY DEF Sockets
      <4> QED BY <3>1, <3>2, <4>1
    <3> QED
      BY <1>4, <2>2, <2>3, <2>4, <3>1, <3>2, <3>3 DEF Hello
  <2>5. CASE ~Live(d, n)
    <3>1. claims' \in [Devices -> [Sockets -> 0..MaxCodes]]
      BY <1>4, <1>c, <2>5 DEF Hello
    <3> QED
      BY <1>4, <2>2, <2>3, <2>5, <3>1 DEF Hello
  <2> QED
    BY <2>4, <2>5
<1>5. ASSUME NEW d \in Devices, NEW n \in Sockets, Welcomed(d, n)
      PROVE  (TypeOK /\ Numbered)'
  <2>1. claims' \in [Devices -> [Sockets -> 0..MaxCodes]]
    BY <1>5, <1>c DEF Welcomed
  <2>2. /\ handler' \in [Devices -> [Sockets -> Stages]]
        /\ \A e \in Devices, m \in Sockets :
             handler'[e][m] = IF e = d /\ m = n THEN "serving" ELSE handler[e][m]
    BY <1>5, Moves DEF Welcomed
  <2>3. failing' \in [Devices -> BOOLEAN]
    BY <1>5, SendMarks DEF Welcomed
  <2>4. authed' \in [Devices -> BOOLEAN] /\ \A e \in Devices : authed'[e] => session[e] # 0
    <3>1. (Verified(claims[d][n]) /\ session[d] # 0) \in BOOLEAN
      BY DEF Verified
    <3> QED BY <1>5, <3>1 DEF Welcomed
  <2>5. Numbered'
    BY <1>5, <2>2 DEF Welcomed
  <2> QED BY <1>5, <2>1, <2>2, <2>3, <2>4, <2>5 DEF Welcomed
<1>6. ASSUME NEW d \in Devices, NEW n \in Sockets, WelcomeFailed(d, n)
      PROVE  (TypeOK /\ Numbered)'
  <2>1. claims' \in [Devices -> [Sockets -> 0..MaxCodes]]
    BY <1>6, <1>c DEF WelcomeFailed
  <2> QED BY <1>6, <2>1, Moves DEF WelcomeFailed
<1>7. ASSUME NEW d \in Devices, NEW n \in Sockets, Closed(d, n)
      PROVE  (TypeOK /\ Numbered)'
  BY <1>7, Moves, SendMarks DEF Closed, Unregister
<1>8. CASE Restart
  BY <1>8, Moves, SendMarks DEF Restart, InFlightLost
<1>9. CASE StartPairing
  <2>1. code + 1 \in Codes
    BY <1>9, BoundAssumption DEF StartPairing, Codes
  <2> QED BY <1>9, <2>1 DEF StartPairing
<1>10. CASE CodeEnds
  BY <1>10, Moves, SendMarks DEF CodeEnds
<1>11. ASSUME NEW p \in Phones, Say(p)
      PROVE  (TypeOK /\ Numbered)'
  <2>1. token' \in [Phones -> 0..MaxCodes]
    BY <1>0, <1>11 DEF Say
  <2>2. failing' \in [Devices -> BOOLEAN]
    BY <1>11, SendMarks DEF Say
  <2>3. UNCHANGED <<sock, up, held, code, valid, granted, expired, handler, claims, session,
                    authed, paired, verify, confirmed, stale, restarted, breaks>>
    BY <1>11 DEF Say
  <2> QED
    BY <2>1, <2>2, <2>3
<1>12. ASSUME NEW p \in Phones, NEW k \in Codes, PairConfirmed(p, k)
      PROVE  (TypeOK /\ Numbered)'
  <2>1. token' \in [Phones -> 0..MaxCodes] /\ held' \in [Phones -> 0..MaxCodes]
    <3>1. k \in 0..MaxCodes
      OBVIOUS
    <3> QED BY <1>12, <3>1 DEF PairConfirmed
  <2>2. authed' \in [Devices -> BOOLEAN] /\ (\A e \in Devices : authed'[e] => session[e] # 0)
    <3>1. CASE session[Desktop] = 0
      BY <1>12, <3>1 DEF PairConfirmed
    <3>2. CASE session[Desktop] # 0
      <4>1. authed' = [authed EXCEPT ![p] = @ \/ session[p] # 0]
        BY <1>12, <3>2 DEF PairConfirmed
      <4>2. \A e \in Devices : authed'[e] = (authed[e] \/ (e = p /\ session[p] # 0))
        BY <4>1
      <4> QED
        BY <4>1, <4>2
    <3> QED
      BY <3>1, <3>2
  <2>3. failing' \in [Devices -> BOOLEAN]
    BY <1>12, SendMarks DEF PairConfirmed
  <2>4. paired' \subseteq Phones /\ confirmed' \subseteq Phones \X Codes
    BY <1>12 DEF PairConfirmed
  <2>5. UNCHANGED <<sock, up, code, valid, granted, expired, handler, claims, session,
                    verify, stale, restarted, breaks>>
    BY <1>12 DEF PairConfirmed
  <2> QED
    BY <2>1, <2>2, <2>3, <2>4, <2>5
<1>13. ASSUME NEW p \in Phones, NEW k \in Codes, PairConnect(p, k)
      PROVE  (TypeOK /\ Numbered)'
  <2>1. verify' \subseteq Phones \X Codes
    <3>1. verify' \subseteq verify \union {<<p, k>>}
      BY <1>13 DEF PairConnect
    <3> QED
      BY <1>13, <3>1
  <2>2. failing' \in [Devices -> BOOLEAN]
    BY <1>13, SendMarks DEF PairConnect
  <2>3. UNCHANGED <<device, handler, claims, session, authed, paired, confirmed, stale,
                    restarted, breaks>>
    BY <1>13 DEF PairConnect
  <2> QED
    BY <2>1, <2>2, <2>3
<1>14. ASSUME NEW p \in Phones, NEW k \in Codes, PairVerify(p, k)
      PROVE  (TypeOK /\ Numbered)'
  <2>1. valid' \subseteq Codes /\ granted' \in [Codes -> SUBSET Phones]
    <3>1. CASE k \in valid
      <4>1. valid' = valid \ {k} /\ granted' = [granted EXCEPT ![k] = @ \union {p}]
        BY <1>14, <3>1 DEF PairVerify
      <4>2. granted[k] \union {p} \in SUBSET Phones
        BY <1>14
      <4>3. granted' \in [Codes -> SUBSET Phones]
        BY <4>1, <4>2, Zenon
      <4> QED
        BY <4>1, <4>3
    <3>2. CASE k \notin valid
      BY <1>14, <3>2 DEF PairVerify
    <3> QED
      BY <3>1, <3>2
  <2>2. verify' \subseteq Phones \X Codes /\ confirmed' \subseteq Phones \X Codes
    BY <1>14 DEF PairVerify
  <2>3. UNCHANGED <<sock, up, token, held, code, expired, relay, stale, restarted, breaks>>
    BY <1>14 DEF PairVerify
  <2> QED
    BY <2>1, <2>2, <2>3
<1>16. ASSUME NEW k \in Codes, Expires(k)
      PROVE  (TypeOK /\ Numbered)'
  BY <1>16, SMTT(30) DEF Expires
<1>15. CASE UNCHANGED vars
  BY <1>15, Moves, SendMarks DEF vars
<1> QED
  BY <1>1, <1>2, <1>3, <1>4, <1>5, <1>6, <1>7, <1>8, <1>9,
     <1>10, <1>11, <1>12, <1>13, <1>14, <1>15, <1>16 DEF Next

\* Held, of one device.
HeldBy(d) ==
  /\ \A n \in Sockets : handler[d][n] \in {"none", "hello"} => session[d] # n
  /\ up[d] /\ Newest(d) \in {"welcoming", "serving"} /\ ~stale[d] => session[d] = sock[d]

\* Every step leaves each session with the newest socket that was greeted, or
\* notes that it was taken.
LEMMA HeldStep == IInv /\ [Next]_vars => Held'
<1> SUFFICES ASSUME IInv, [Next]_vars, NEW e \in Devices PROVE HeldBy(e)'
  BY DEF Held, HeldBy
<1>0. /\ \A d \in Devices : /\ sock[d] \in Sockets /\ stale[d] \in BOOLEAN /\ up[d] \in BOOLEAN
                            /\ session[d] \in 0 .. MaxBreaks + 1
      /\ sock \in [Devices -> 0..(MaxBreaks + 1)]
      /\ handler \in [Devices -> [Sockets -> Stages]] /\ stale \in [Devices -> BOOLEAN]
      /\ session \in [Devices -> 0 .. MaxBreaks + 1] /\ authed \in [Devices -> BOOLEAN]
      /\ up \in [Devices -> BOOLEAN]
      /\ HeldBy(e) /\ MaxBreaks \in Nat /\ 0 \notin Sockets /\ Sockets \subseteq Nat
      /\ \A n \in Sockets : n > sock[e] => handler[e][n] = "none"
  BY BoundAssumption DEF IInv, TypeOK, Numbered, Held, HeldBy, Sockets
<1>a. Phones \subseteq Devices
  BY DEF Devices
<1> USE <1>0, <1>a DEF HeldBy, Newest, device, relay
<1>1. ASSUME NEW d \in Devices, Connect(d)
      PROVE  HeldBy(e)'
  <2>1. sock[d] + 1 \in Sockets
    BY <1>1, NextSocket DEF Connect, IInv
  <2>2. \A c \in Devices, m \in Sockets :
           handler'[c][m] = IF c = d /\ m = sock[d] + 1 THEN "hello" ELSE handler[c][m]
    BY <1>1, <2>1, Moves DEF Connect, Stages
  <2> QED
    BY <1>1, <2>1, <2>2 DEF Connect
<1>2. ASSUME NEW d \in Devices, Drop(d)
      PROVE  HeldBy(e)'
  BY <1>2 DEF Drop, InFlightLost
<1>3. ASSUME NEW d \in Devices, SendFailed(d)
      PROVE  HeldBy(e)'
  BY <1>3 DEF SendFailed, Unregister, Dead, Live
<1>4. ASSUME NEW d \in Devices, NEW n \in Sockets, Hello(d, n)
      PROVE  HeldBy(e)'
  <2>1. PICK s \in Stages : s # "none" /\ s # "hello" /\ handler' = [handler EXCEPT ![d][n] = s]
    BY <1>4 DEF Hello, Stages
  <2>2. \A c \in Devices, m \in Sockets :
           handler'[c][m] = IF c = d /\ m = n THEN s ELSE handler[c][m]
    BY <2>1, Moves
  <2> QED
    BY <1>4, <2>1, <2>2 DEF Hello, Register, Live
<1>5. ASSUME NEW d \in Devices, NEW n \in Sockets, Welcomed(d, n)
      PROVE  HeldBy(e)'
  <2>1. PICK s \in Stages : s # "none" /\ s # "hello" /\ handler' = [handler EXCEPT ![d][n] = s]
    BY <1>5 DEF Welcomed, Stages
  <2>2. \A c \in Devices, m \in Sockets :
           handler'[c][m] = IF c = d /\ m = n THEN s ELSE handler[c][m]
    BY <2>1, Moves
  <2> QED
    BY <1>5, <2>1, <2>2 DEF Welcomed
<1>6. ASSUME NEW d \in Devices, NEW n \in Sockets, WelcomeFailed(d, n)
      PROVE  HeldBy(e)'
  <2>1. PICK s \in Stages : s # "none" /\ s # "hello" /\ handler' = [handler EXCEPT ![d][n] = s]
    BY <1>6 DEF WelcomeFailed, Stages
  <2>2. \A c \in Devices, m \in Sockets :
           handler'[c][m] = IF c = d /\ m = n THEN s ELSE handler[c][m]
    BY <2>1, Moves
  <2> QED
    BY <1>6, <2>1, <2>2 DEF WelcomeFailed, Live
<1>7. ASSUME NEW d \in Devices, NEW n \in Sockets, Closed(d, n)
      PROVE  HeldBy(e)'
  <2>1. PICK s \in Stages : s # "none" /\ s # "hello" /\ handler' = [handler EXCEPT ![d][n] = s]
    BY <1>7 DEF Closed, Stages
  <2>2. \A c \in Devices, m \in Sockets :
           handler'[c][m] = IF c = d /\ m = n THEN s ELSE handler[c][m]
    BY <2>1, Moves
  <2> QED
    BY <1>7, <2>1, <2>2 DEF Closed, Unregister, Live, Dead
<1>8. CASE Restart
  BY <1>8 DEF Restart, InFlightLost
<1>9. CASE StartPairing
  BY <1>9 DEF StartPairing
<1>10. CASE CodeEnds
  BY <1>10 DEF CodeEnds
<1>11. ASSUME NEW p \in Phones, Say(p)
      PROVE  HeldBy(e)'
  BY <1>11 DEF Say
<1>12. ASSUME NEW p \in Phones, NEW k \in Codes, PairConfirmed(p, k)
      PROVE  HeldBy(e)'
  BY <1>12 DEF PairConfirmed
<1>13. ASSUME NEW p \in Phones, NEW k \in Codes, PairConnect(p, k)
      PROVE  HeldBy(e)'
  BY <1>13 DEF PairConnect
<1>14. ASSUME NEW p \in Phones, NEW k \in Codes, PairVerify(p, k)
      PROVE  HeldBy(e)'
  BY <1>14 DEF PairVerify
<1>16. ASSUME NEW k \in Codes, Expires(k)
      PROVE  HeldBy(e)'
  BY <1>16 DEF Expires
<1>15. CASE UNCHANGED vars
  BY <1>15 DEF vars
<1> QED
  BY <1>1, <1>2, <1>3, <1>4, <1>5, <1>6, <1>7, <1>8, <1>9,
     <1>10, <1>11, <1>12, <1>13, <1>14, <1>15, <1>16 DEF Next

\* Tokens, of one phone.
Counts(p) ==
  /\ token[p] # 0 => held[p] = token[p]
  /\ held[p] # 0 => restarted \/ p \in paired
  /\ held[p] # 0 /\ held[p] \notin expired =>
       /\ Newest(p) = "hello" => claims[p][sock[p]] = held[p]
       /\ up[p] /\ ~stale[p] =>
            /\ Newest(p) = "welcoming" => claims[p][sock[p]] = held[p] \/ authed[p]
            /\ Newest(p) = "serving" => authed[p]

\* Every step leaves a phone with a token what it needs.
LEMMA TokensStep == IInv /\ [Next]_vars => Tokens'
<1> SUFFICES ASSUME IInv, [Next]_vars, NEW q \in Phones PROVE Counts(q)'
  BY DEF Tokens, Counts
<1>0. /\ \A d \in Devices : /\ sock[d] \in Sockets /\ stale[d] \in BOOLEAN /\ up[d] \in BOOLEAN
                            /\ session[d] \in 0 .. MaxBreaks + 1 /\ authed[d] \in BOOLEAN
      /\ sock \in [Devices -> 0..(MaxBreaks + 1)]
      /\ handler \in [Devices -> [Sockets -> Stages]] /\ stale \in [Devices -> BOOLEAN]
      /\ session \in [Devices -> 0 .. MaxBreaks + 1] /\ authed \in [Devices -> BOOLEAN]
      /\ up \in [Devices -> BOOLEAN] /\ token \in [Phones -> 0..MaxCodes]
      /\ held \in [Phones -> 0..MaxCodes]
      /\ claims \in [Devices -> [Sockets -> 0..MaxCodes]] /\ 0 \in 0..MaxCodes
      /\ Counts(q) /\ HeldBy(q) /\ MaxBreaks \in Nat /\ 0 \notin Sockets /\ Sockets \subseteq Nat
      /\ \A n \in Sockets : n > sock[q] => handler[q][n] = "none"
      /\ q \in Devices /\ q # Desktop /\ Desktop \in Devices
  <2>1. TypeOK /\ Numbered /\ Counts(q) /\ q \in Devices /\ q # Desktop /\ Desktop \in Devices
    BY DevicesAssumption DEF IInv, Tokens, Counts, Devices
  <2>2. HeldBy(q)
    BY <2>1 DEF IInv, Held, HeldBy
  <2>3. MaxBreaks \in Nat /\ 0 \notin Sockets /\ Sockets \subseteq Nat /\ 0 \in 0..MaxCodes
    BY BoundAssumption DEF Sockets
  <2> QED BY <2>1, <2>2, <2>3 DEF TypeOK, Numbered
<1>a. Phones \subseteq Devices
  BY DEF Devices
<1> USE <1>0, <1>a DEF Counts, HeldBy, Newest, device, relay
<1>1. ASSUME NEW d \in Devices, Connect(d)
      PROVE  Counts(q)'
  <2>1. sock[d] + 1 \in Sockets
    BY <1>1, NextSocket DEF Connect, IInv
  <2>2. \A c \in Devices, m \in Sockets :
           handler'[c][m] = IF c = d /\ m = sock[d] + 1 THEN "hello" ELSE handler[c][m]
    BY <1>1, <2>1, Moves DEF Connect, Stages
  <2> QED
    BY <1>1, <2>1, <2>2 DEF Connect
<1>2. ASSUME NEW d \in Devices, Drop(d)
      PROVE  Counts(q)'
  BY <1>2 DEF Drop, InFlightLost
<1>3. ASSUME NEW d \in Devices, SendFailed(d)
      PROVE  Counts(q)'
  BY <1>3 DEF SendFailed, Unregister, Dead, Live
<1>4. ASSUME NEW d \in Devices, NEW n \in Sockets, Hello(d, n)
      PROVE  Counts(q)'
  <2>1. PICK s \in Stages : s # "none" /\ s # "hello" /\ handler' = [handler EXCEPT ![d][n] = s]
    BY <1>4 DEF Hello, Stages
  <2>2. \A c \in Devices, m \in Sockets :
           handler'[c][m] = IF c = d /\ m = n THEN s ELSE handler[c][m]
    BY <2>1, Moves
  <2> QED
    BY <1>4, <2>1, <2>2 DEF Hello, Register, Live
<1>5. ASSUME NEW d \in Devices, NEW n \in Sockets, Welcomed(d, n)
      PROVE  Counts(q)'
  <2>1. PICK s \in Stages : s # "none" /\ s # "hello" /\ handler' = [handler EXCEPT ![d][n] = s]
    BY <1>5 DEF Welcomed, Stages
  <2>2. \A c \in Devices, m \in Sockets :
           handler'[c][m] = IF c = d /\ m = n THEN s ELSE handler[c][m]
    BY <2>1, Moves
  <2>3. /\ \A c \in Devices, m \in Sockets :
              claims'[c][m] = IF c = d /\ m = n THEN 0 ELSE claims[c][m]
        /\ \A c \in Devices : authed[c] => authed'[c]
        /\ d = q /\ Verified(claims[d][n]) /\ session[d] # 0 => authed'[q]
    <3>1. \A c \in Devices, m \in Sockets :
            claims'[c][m] = IF c = d /\ m = n THEN 0 ELSE claims[c][m]
      BY <1>5, Carries DEF Welcomed
    <3>2. authed' = [authed EXCEPT ![d] = @ \/ (Verified(claims[d][n]) /\ session[d] # 0)]
      BY <1>5 DEF Welcomed
    <3>3. /\ \A c \in Devices : authed[c] => authed'[c]
          /\ d = q /\ Verified(claims[d][n]) /\ session[d] # 0 => authed'[q]
      BY <3>2
    <3> QED BY <3>1, <3>3
  <2>4. s = "serving" /\ handler[d][n] = "welcoming"
    BY <1>5, <2>2 DEF Welcomed
  <2>5. CASE d = q /\ n = sock[q]
    BY <1>5, <2>2, <2>3, <2>4, <2>5 DEF Welcomed, Verified
  <2>6. CASE ~(d = q /\ n = sock[q])
    BY <1>5, <2>2, <2>3, <2>6 DEF Welcomed
  <2> QED
    BY <2>5, <2>6
<1>6. ASSUME NEW d \in Devices, NEW n \in Sockets, WelcomeFailed(d, n)
      PROVE  Counts(q)'
  <2>1. PICK s \in Stages : s # "none" /\ s # "hello" /\ handler' = [handler EXCEPT ![d][n] = s]
    BY <1>6 DEF WelcomeFailed, Stages
  <2>2. \A c \in Devices, m \in Sockets :
           handler'[c][m] = IF c = d /\ m = n THEN s ELSE handler[c][m]
    BY <2>1, Moves
  <2> QED
    BY <1>6, <2>1, <2>2 DEF WelcomeFailed, Live
<1>7. ASSUME NEW d \in Devices, NEW n \in Sockets, Closed(d, n)
      PROVE  Counts(q)'
  <2>1. PICK s \in Stages : s # "none" /\ s # "hello" /\ handler' = [handler EXCEPT ![d][n] = s]
    BY <1>7 DEF Closed, Stages
  <2>2. \A c \in Devices, m \in Sockets :
           handler'[c][m] = IF c = d /\ m = n THEN s ELSE handler[c][m]
    BY <2>1, Moves
  <2> QED
    BY <1>7, <2>1, <2>2 DEF Closed, Unregister, Live, Dead
<1>8. CASE Restart
  BY <1>8 DEF Restart
<1>9. CASE StartPairing
  BY <1>9 DEF StartPairing
<1>10. CASE CodeEnds
  BY <1>10 DEF CodeEnds
<1>11. ASSUME NEW p \in Phones, Say(p)
      PROVE  Counts(q)'
  BY <1>11 DEF Say
<1>12. ASSUME NEW p \in Phones, NEW k \in Codes, PairConfirmed(p, k)
      PROVE  Counts(q)'
  BY <1>12 DEF PairConfirmed, Dead, Live
<1>13. ASSUME NEW p \in Phones, NEW k \in Codes, PairConnect(p, k)
      PROVE  Counts(q)'
  BY <1>13 DEF PairConnect
<1>14. ASSUME NEW p \in Phones, NEW k \in Codes, PairVerify(p, k)
      PROVE  Counts(q)'
  BY <1>14 DEF PairVerify
<1>16. ASSUME NEW k \in Codes, Expires(k)
      PROVE  Counts(q)'
  BY <1>16 DEF Expires
<1>15. CASE UNCHANGED vars
  BY <1>15 DEF vars
<1> QED
  BY <1>1, <1>2, <1>3, <1>4, <1>5, <1>6, <1>7, <1>8, <1>9,
     <1>10, <1>11, <1>12, <1>13, <1>14, <1>15, <1>16 DEF Next

\* No step uses a code twice.
LEMMA UnusedStep == IInv /\ [Next]_vars => Unused'
<1> SUFFICES ASSUME IInv, [Next]_vars PROVE Unused'
  OBVIOUS
<1>0. /\ Unused /\ code \in 0 .. MaxCodes /\ MaxCodes \in Nat /\ Codes \subseteq Nat
      /\ granted \in [Codes -> SUBSET Phones]
  BY BoundAssumption DEF IInv, TypeOK, Codes
<1> USE <1>0 DEF Unused, device, relay
<1>1. ASSUME NEW d \in Devices, Connect(d)
      PROVE  Unused'
  BY <1>1 DEF Connect
<1>2. ASSUME NEW d \in Devices, Drop(d)
      PROVE  Unused'
  BY <1>2 DEF Drop, InFlightLost
<1>3. ASSUME NEW d \in Devices, SendFailed(d)
      PROVE  Unused'
  BY <1>3 DEF SendFailed, Unregister
<1>4. ASSUME NEW d \in Devices, NEW n \in Sockets, Hello(d, n)
      PROVE  Unused'
  BY <1>4 DEF Hello, Register
<1>5. ASSUME NEW d \in Devices, NEW n \in Sockets, Welcomed(d, n)
      PROVE  Unused'
  BY <1>5 DEF Welcomed
<1>6. ASSUME NEW d \in Devices, NEW n \in Sockets, WelcomeFailed(d, n)
      PROVE  Unused'
  BY <1>6 DEF WelcomeFailed
<1>7. ASSUME NEW d \in Devices, NEW n \in Sockets, Closed(d, n)
      PROVE  Unused'
  BY <1>7 DEF Closed, Unregister
<1>8. CASE Restart
  BY <1>8 DEF Restart, InFlightLost
<1>9. CASE StartPairing
  BY <1>9 DEF StartPairing
<1>10. CASE CodeEnds
  BY <1>10 DEF CodeEnds
<1>11. ASSUME NEW p \in Phones, Say(p)
      PROVE  Unused'
  BY <1>11 DEF Say
<1>12. ASSUME NEW p \in Phones, NEW k \in Codes, PairConfirmed(p, k)
      PROVE  Unused'
  BY <1>12 DEF PairConfirmed
<1>13. ASSUME NEW p \in Phones, NEW k \in Codes, PairConnect(p, k)
      PROVE  Unused'
  BY <1>13 DEF PairConnect
<1>14. ASSUME NEW p \in Phones, NEW k \in Codes, PairVerify(p, k)
      PROVE  Unused'
  <2>1. CASE k \in valid
    <3>1. granted[k] = {} /\ valid' = valid \ {k} /\ k = code /\ code' = code
      BY <1>14, <2>1 DEF PairVerify
    <3>2. granted' = [granted EXCEPT ![k] = {p}]
      BY <1>14, <2>1, <3>1 DEF PairVerify
    <3> QED BY <3>1, <3>2
  <2>2. CASE k \notin valid
    BY <1>14, <2>2 DEF PairVerify
  <2> QED BY <2>1, <2>2
<1>16. ASSUME NEW k \in Codes, Expires(k)
      PROVE  Unused'
  BY <1>16 DEF Expires
<1>15. CASE UNCHANGED vars
  BY <1>15 DEF vars
<1> QED
  BY <1>1, <1>2, <1>3, <1>4, <1>5, <1>6, <1>7, <1>8, <1>9,
     <1>10, <1>11, <1>12, <1>13, <1>14, <1>15, <1>16 DEF Next

\* No step makes a phone known that no code paired.
LEMMA KnownStep == IInv /\ [Next]_vars => Known'
<1> SUFFICES ASSUME IInv, [Next]_vars PROVE Known'
  OBVIOUS
<1>0. /\ Known /\ granted \in [Codes -> SUBSET Phones] /\ token \in [Phones -> 0..MaxCodes]
      /\ held \in [Phones -> 0..MaxCodes] /\ 0 \in 0..MaxCodes
      /\ authed \in [Devices -> BOOLEAN] /\ claims \in [Devices -> [Sockets -> 0..MaxCodes]]
      /\ Phones \subseteq Devices /\ Desktop \notin Phones
      /\ verify \subseteq Phones \X Codes
  BY DevicesAssumption, BoundAssumption DEF IInv, TypeOK, Devices
<1> USE <1>0 DEF Known, IsOf, WasGranted, device, relay
<1>1. ASSUME NEW d \in Devices, Connect(d)
      PROVE  Known'
  <2>1. \A p \in Phones : IsOf(held'[p], p)
    <3>1. held' = held \/ (d \in Phones /\ held' = [held EXCEPT ![d] = token[d]])
      BY <1>1 DEF Connect
    <3> QED BY <3>1
  <2>2. \A p \in Phones, n \in Sockets : IsOf(claims'[p][n], p)
    <3>1. CASE d \in Phones
      <4>1. sock[d] + 1 \in Sockets
        BY <1>1, NextSocket DEF Connect, IInv
      <4>2. held' \in [Phones -> 0..MaxCodes]
        <5>1. held' = held \/ held' = [held EXCEPT ![d] = token[d]]
          BY <1>1 DEF Connect
        <5> QED BY <3>1, <5>1
      <4>3. \A e \in Devices, m \in Sockets :
              claims'[e][m] = IF e = d /\ m = sock[d] + 1 THEN held'[d] ELSE claims[e][m]
        BY <1>1, <3>1, <4>1, <4>2, Carries DEF Connect
      <4> QED BY <2>1, <3>1, <4>3
    <3>2. CASE d \notin Phones
      BY <1>1, <3>2 DEF Connect
    <3> QED BY <3>1, <3>2
  <2>3. UNCHANGED <<token, granted, confirmed, authed>>
    BY <1>1 DEF Connect
  <2> QED BY <2>1, <2>2, <2>3
<1>2. ASSUME NEW d \in Devices, Drop(d)
      PROVE  Known'
  BY <1>2 DEF Drop, InFlightLost
<1>3. ASSUME NEW d \in Devices, SendFailed(d)
      PROVE  Known'
  BY <1>3 DEF SendFailed, Unregister
<1>4. ASSUME NEW d \in Devices, NEW n \in Sockets, Hello(d, n)
      PROVE  Known'
  <2>1. CASE Live(d, n)
    BY <1>4, <2>1 DEF Hello, Register
  <2>2. CASE ~Live(d, n)
    <3>1. \A e \in Devices, m \in Sockets :
            claims'[e][m] = IF e = d /\ m = n THEN 0 ELSE claims[e][m]
      BY <1>4, <2>2, Carries DEF Hello
    <3> QED BY <1>4, <2>2, <3>1 DEF Hello
  <2> QED BY <2>1, <2>2
<1>5. ASSUME NEW d \in Devices, NEW n \in Sockets, Welcomed(d, n)
      PROVE  Known'
  <2>1. \A e \in Devices, m \in Sockets :
          claims'[e][m] = IF e = d /\ m = n THEN 0 ELSE claims[e][m]
    BY <1>5, Carries DEF Welcomed
  <2>2. \A p \in Phones : authed'[p] => authed[p] \/ (p = d /\ claims[p][n] # 0)
    BY <1>5 DEF Welcomed, Verified
  <2>3. \A p \in Phones : authed'[p] => WasGranted(p)
    BY <2>2
  <2>4. UNCHANGED <<token, held, granted, confirmed>>
    BY <1>5 DEF Welcomed
  <2> QED BY <2>1, <2>3, <2>4
<1>6. ASSUME NEW d \in Devices, NEW n \in Sockets, WelcomeFailed(d, n)
      PROVE  Known'
  BY <1>6 DEF WelcomeFailed
<1>7. ASSUME NEW d \in Devices, NEW n \in Sockets, Closed(d, n)
      PROVE  Known'
  BY <1>7 DEF Closed, Unregister
<1>8. CASE Restart
  BY <1>8 DEF Restart, InFlightLost
<1>9. CASE StartPairing
  BY <1>9 DEF StartPairing
<1>10. CASE CodeEnds
  BY <1>10 DEF CodeEnds
<1>11. ASSUME NEW p \in Phones, Say(p)
      PROVE  Known'
  BY <1>11 DEF Say
<1>12. ASSUME NEW p \in Phones, NEW k \in Codes, PairConfirmed(p, k)
      PROVE  Known'
  BY <1>12 DEF PairConfirmed
<1>13. ASSUME NEW p \in Phones, NEW k \in Codes, PairConnect(p, k)
      PROVE  Known'
  BY <1>13 DEF PairConnect
<1>14. ASSUME NEW p \in Phones, NEW k \in Codes, PairVerify(p, k)
      PROVE  Known'
  <2>1. CASE k \in valid
    <3>1. /\ \A c \in Codes : granted'[c] = IF c = k THEN granted[c] \union {p} ELSE granted[c]
          /\ confirmed' = confirmed \union {<<p, k>>}
      BY <1>14, <2>1 DEF PairVerify
    <3>2. UNCHANGED <<token, held, claims, authed>>
      BY <1>14 DEF PairVerify
    <3>3. \A c \in Codes, r \in Phones : r \in granted[c] => r \in granted'[c]
      BY <3>1
    <3>4. \A q \in Phones : (IsOf(token[q], q) /\ IsOf(held[q], q))'
      BY <3>2, <3>3
    <3>5. \A q \in Phones, n \in Sockets : IsOf(claims[q][n], q)'
      BY <3>2, <3>3
    <3>6. \A q \in Phones : (authed[q] => WasGranted(q))'
      BY <3>2, <3>3
    <3>7. \A q \in Phones, c \in Codes : <<q, c>> \in confirmed' => q \in granted'[c]
      BY <3>1, <3>3
    <3> QED BY <3>2, <3>4, <3>5, <3>6, <3>7
  <2>2. CASE k \notin valid
    BY <1>14, <2>2 DEF PairVerify
  <2> QED BY <2>1, <2>2
<1>16. ASSUME NEW k \in Codes, Expires(k)
      PROVE  Known'
  BY <1>16 DEF Expires
<1>15. CASE UNCHANGED vars
  BY <1>15 DEF vars
<1> QED
  BY <1>1, <1>2, <1>3, <1>4, <1>5, <1>6, <1>7, <1>8, <1>9,
     <1>10, <1>11, <1>12, <1>13, <1>14, <1>15, <1>16 DEF Next

\* The invariant holds at the start, is kept by every step, and so always holds.
LEMMA InitInv == Init => IInv
<1> SUFFICES ASSUME Init PROVE IInv
  OBVIOUS
<1>0. MaxBreaks \in Nat /\ MaxCodes \in Nat /\ Desktop \notin Phones /\ Phones \subseteq Devices
  BY BoundAssumption, DevicesAssumption DEF Devices
<1>1. handler \in [Devices -> [Sockets -> Stages]] /\ authed \in [Devices -> BOOLEAN]
  BY DEF Init, Stages
<1>2. TypeOK
  <2>1. sock \in [Devices -> 0..(MaxBreaks + 1)] /\ session \in [Devices -> 0..(MaxBreaks + 1)]
    BY <1>0 DEF Init
  <2>2. /\ claims \in [Devices -> [Sockets -> 0..MaxCodes]] /\ granted \in [Codes -> SUBSET Phones]
        /\ token \in [Phones -> 0..MaxCodes] /\ held \in [Phones -> 0..MaxCodes]
    <3>1. 0 \in 0..MaxCodes
      BY <1>0
    <3> QED BY <3>1 DEF Init
  <2>3. /\ up \in [Devices -> BOOLEAN]
        /\ failing \in [Devices -> BOOLEAN] /\ stale \in [Devices -> BOOLEAN]
        /\ restarted \in BOOLEAN
    BY DEF Init
  <2>4. code \in 0..MaxCodes /\ breaks \in 0..MaxBreaks
    BY <1>0 DEF Init
  <2>5. \A d \in Devices : authed[d] => session[d] # 0
    BY DEF Init
  <2> QED
    BY <1>1, <2>1, <2>2, <2>3, <2>4, <2>5 DEF Init, TypeOK
<1>3. Numbered
  BY <1>0 DEF Init, Numbered, Sockets
<1>4. Held
  BY <1>0 DEF Init, Held, Newest, Sockets
<1>5. Tokens /\ Unused /\ Known
  BY <1>0 DEF Init, Tokens, Unused, Known, IsOf
<1> QED
  BY <1>2, <1>3, <1>4, <1>5 DEF IInv

LEMMA Inductive == IInv /\ [Next]_vars => IInv'
<1>1. IInv => TypeOK /\ Numbered
  BY DEF IInv
<1> QED
  BY <1>1, TypeStep, HeldStep, TokensStep, UnusedStep, KnownStep DEF IInv

LEMMA Invariance == Spec => []IInv
  BY InitInv, Inductive, PTL DEF Spec

(* Every variable has its type in every reachable state, and only a        *)
(* session that is there is authenticated.                                 *)
THEOREM TypeCorrect == Spec => []TypeOK
<1>1. IInv => TypeOK
  BY DEF IInv
<1> QED
  BY Invariance, <1>1, PTL

\* The invariant says more of the newest socket than GetsThrough asks.
LEMMA Through == IInv => GetsThrough
<1> SUFFICES ASSUME IInv PROVE GetsThrough
  OBVIOUS
<1>1. Reachable
  BY DEF IInv, Held, Reachable, Served, Newest
<1> QED
  BY <1>1 DEF IInv, Tokens, GetsThrough, Served, Newest, Devices

(* Whoever was paired gets through with it after any number of broken      *)
(* sockets, and a code pairs one phone at most: two presentations of it    *)
(* before the first confirmation cannot both succeed.                      *)
THEOREM PairingsHold == Spec => []PairingHolds
<1>1. IInv => OnePhonePerCode
  BY DEF IInv, Unused, Known, IsOf, WasGranted, OnePhonePerCode
<1>2. IInv => PairingHolds
  BY <1>1, Through DEF PairingHolds
<1> QED
  BY Invariance, <1>2, PTL

\* Only a refused message wipes a token, and only a taken session, or an expired
\* token, refuses.
LEMMA KeptStep ==
  IInv /\ [Next]_vars =>
    \A p \in Phones : token[p] # 0 /\ token'[p] = 0 => stale[p] \/ token[p] \in expired
<1> DEFINE Excused(p) == stale[p] \/ token[p] \in expired
<1> SUFFICES ASSUME IInv, [Next]_vars, NEW q \in Phones, token[q] # 0, token'[q] = 0
             PROVE  Excused(q)
  OBVIOUS
<1>0. GetsThrough /\ token \in [Phones -> 0..MaxCodes] /\ held[q] = token[q] /\ 0 \notin Codes
  BY Through DEF IInv, TypeOK, Tokens, Codes
<1> USE <1>0 DEF device
<1>1. ASSUME NEW d \in Devices, Connect(d)
      PROVE  Excused(q)
  BY <1>1 DEF Connect
<1>2. ASSUME NEW d \in Devices, Drop(d)
      PROVE  Excused(q)
  BY <1>2 DEF Drop, InFlightLost
<1>3. ASSUME NEW d \in Devices, SendFailed(d)
      PROVE  Excused(q)
  BY <1>3 DEF SendFailed, Unregister
<1>4. ASSUME NEW d \in Devices, NEW n \in Sockets, Hello(d, n)
      PROVE  Excused(q)
  BY <1>4 DEF Hello, Register
<1>5. ASSUME NEW d \in Devices, NEW n \in Sockets, Welcomed(d, n)
      PROVE  Excused(q)
  BY <1>5 DEF Welcomed
<1>6. ASSUME NEW d \in Devices, NEW n \in Sockets, WelcomeFailed(d, n)
      PROVE  Excused(q)
  BY <1>6 DEF WelcomeFailed
<1>7. ASSUME NEW d \in Devices, NEW n \in Sockets, Closed(d, n)
      PROVE  Excused(q)
  BY <1>7 DEF Closed, Unregister
<1>8. CASE Restart
  BY <1>8 DEF Restart, InFlightLost
<1>9. CASE StartPairing
  BY <1>9 DEF StartPairing
<1>10. CASE CodeEnds
  BY <1>10 DEF CodeEnds
<1>11. ASSUME NEW p \in Phones, Say(p)
      PROVE  Excused(q)
  BY <1>11 DEF Say, GetsThrough
<1>12. ASSUME NEW p \in Phones, NEW k \in Codes, PairConfirmed(p, k)
      PROVE  Excused(q)
  BY <1>12 DEF PairConfirmed
<1>13. ASSUME NEW p \in Phones, NEW k \in Codes, PairConnect(p, k)
      PROVE  Excused(q)
  BY <1>13 DEF PairConnect
<1>14. ASSUME NEW p \in Phones, NEW k \in Codes, PairVerify(p, k)
      PROVE  Excused(q)
  BY <1>14 DEF PairVerify
<1>16. ASSUME NEW k \in Codes, Expires(k)
      PROVE  Excused(q)
  BY <1>16 DEF Expires
<1>15. CASE UNCHANGED vars
  BY <1>15 DEF vars
<1> QED
  BY <1>1, <1>2, <1>3, <1>4, <1>5, <1>6, <1>7, <1>8, <1>9,
     <1>10, <1>11, <1>12, <1>13, <1>14, <1>15, <1>16 DEF Next

\* Only the newest code pairs.
LEMMA NewestStep == IInv /\ [Next]_vars => \A k \in Codes : granted'[k] # granted[k] => k = code
<1> SUFFICES ASSUME IInv, [Next]_vars, NEW c \in Codes, granted'[c] # granted[c] PROVE c = code
  OBVIOUS
<1>1. valid \subseteq {code} /\ granted \in [Codes -> SUBSET Phones]
  BY DEF IInv, Unused, TypeOK
<1>2. PICK p \in Phones, k \in Codes : PairVerify(p, k)
  BY DEF Next, Connect, Drop, SendFailed, Hello, Welcomed, WelcomeFailed, Closed, Restart,
     StartPairing, CodeEnds, Say, PairConnect, PairConfirmed, Expires, device, vars
<1> QED BY <1>1, <1>2 DEF PairVerify

(* A phone is made to forget its pairing only when its thirty days are     *)
(* over, or the end of an older socket, or a failed send, had taken its     *)
(* session; and a code that was replaced pairs nobody.                      *)
THEOREM TokenKept == Spec => PairingKept
<1> DEFINE Kept == /\ \A p \in Phones :
                        token[p] # 0 /\ token'[p] = 0 => stale[p] \/ token[p] \in expired
                   /\ \A k \in Codes : granted'[k] # granted[k] => k = code
<1>1. IInv /\ [Next]_vars => [Kept]_vars
  BY KeptStep, NewestStep
<1> QED
  BY Invariance, <1>1, PTL DEF Spec, PairingKept

-----------------------------------------------------------------------------
(* The chats of the phones that the relay connects: Companion.            *)

\* What Companion assumes of its constants.
ChatsAssumed ==
  NoPhone \notin Phones /\ MaxChats \in Nat /\ MaxRounds \in Nat /\ MaxFaults \in Nat

\* Message m is in queue q.
In(m, q) == \E i \in 1 .. Len(q) : q[i] = m

\* Chat c was sent from phone p.
IsOwn(c, p) == c \in 1 .. Len(sent) /\ sent[c] = p

\* A chat is in a queue once.
Distinct(q) ==
  \A i, j \in 1 .. Len(q) :
    q[i].t = "send" /\ q[j].t = "send" /\ q[i].c = q[j].c => i = j

\* A phone sends what is its own, and a chat only once.
Coming ==
  \A p \in Phones :
    /\ Distinct(toDesktop[p])
    /\ \A m \in Messages : In(m, toDesktop[p]) =>
         IsOwn(m.c, p) /\ m.by = m.c /\ (m.t = "send" => m.c \notin handled)

\* A phone is sent what is its own, of the turn of that chat.
Going ==
  \A p \in Phones : \A m \in Messages :
    In(m, toPhone[p]) => IsOwn(m.c, p) /\ m.by = m.c

\* The chat that is pending was taken, and is of the phone that is noted with it;
\* so was the one whose turn runs, and the closed ones, which are not pending.
Taken ==
  /\ pending # 0 => pending \in handled /\ IsOwn(pending, pendingPhone)
  /\ handled \subseteq 1 .. Len(sent)
  /\ running # 0 => running \in handled
  /\ \A c \in Chats : ended[c] # 0 => c \in handled /\ pending # c

\* What the turn's thread has signalled: of its streams only, until it is through;
\* the last signal is that it is.
Streams == {"delta", "done"}
Thread ==
  /\ working => busy /\ \A i \in 1 .. Len(gui) : gui[i] \in Streams
  /\ ~busy => gui = <<>>
  /\ \A i \in 1 .. Len(gui) : gui[i] = "finished" => i = Len(gui)

\* Chat c of phone p is on its way to the desktop.
Asked(c, p) == \E m \in Messages : In(m, toDesktop[p]) /\ m.t = "send" /\ m.c = c

\* The end of chat c is on its way to phone p.
Ending(c, p) ==
  \E m \in Messages : In(m, toPhone[p]) /\ m.t \in Closing /\ m.c = c

\* What ends the wait for a chat: it is on its way to the desktop, or pending there,
\* or its end is on its way back; unless it was missed.
UnderWay(c, p) == c \in missed \/ pending = c \/ Asked(c, p) \/ Ending(c, p)

\* What a screen waits for is the phone's own, and under way.
Awaited ==
  \A p \in Phones : turn[p] # 0 => IsOwn(turn[p], p) /\ UnderWay(turn[p], p)

\* All of it; inductive.
ChatInv ==
  /\ ChatsAssumed /\ ChatTypeOK /\ EndsOnce /\ PendingRuns
  /\ Coming /\ Going /\ Taken /\ Thread /\ Awaited

-----------------------------------------------------------------------------
(* Queues.                                                                 *)

\* What a queue without its head holds.
LEMMA Shorter ==
  ASSUME NEW q \in Seq(Messages), q # <<>>
  PROVE  /\ Tail(q) \in Seq(Messages) /\ Head(q) \in Messages /\ In(Head(q), q)
         /\ \A m : In(m, Tail(q)) => In(m, q)
         /\ \A m : In(m, q) => m = Head(q) \/ In(m, Tail(q))
         /\ Distinct(q) => Distinct(Tail(q))
         /\ Distinct(q) /\ Head(q).t = "send" =>
              \A m : In(m, Tail(q)) /\ m.t = "send" => m.c # Head(q).c
<1>1. /\ Tail(q) \in Seq(Messages) /\ Head(q) = q[1] /\ q[1] \in Messages /\ Len(q) \in Nat \ {0}
      /\ Len(Tail(q)) = Len(q) - 1 /\ \A i \in 1 .. Len(q) - 1 : Tail(q)[i] = q[i + 1]
  OBVIOUS
<1>2. \A i \in 1 .. Len(Tail(q)) : i + 1 \in 1 .. Len(q) /\ Tail(q)[i] = q[i + 1]
  BY <1>1
<1>3. \A i \in 1 .. Len(q) : i = 1 \/ (i - 1 \in 1 .. Len(Tail(q)) /\ Tail(q)[i - 1] = q[i])
  BY <1>1
<1>4. \A m : In(m, Tail(q)) => In(m, q)
  BY <1>2 DEF In
<1>5. \A m : In(m, q) => m = Head(q) \/ In(m, Tail(q))
  BY <1>1, <1>3 DEF In
<1>6. Distinct(q) => Distinct(Tail(q))
  BY <1>1, <1>2 DEF Distinct
<1>7. ASSUME Distinct(q), Head(q).t = "send", NEW m, In(m, Tail(q)), m.t = "send"
      PROVE  m.c # Head(q).c
  BY <1>1, <1>2, <1>7 DEF Distinct, In
<1>8. In(Head(q), q)
  BY <1>1 DEF In
<1> QED BY <1>1, <1>4, <1>5, <1>6, <1>7, <1>8

\* What a queue with one message more holds.
LEMMA Longer ==
  ASSUME NEW q \in Seq(Messages), NEW x \in Messages
  PROVE  /\ Append(q, x) \in Seq(Messages)
         /\ \A m : In(m, Append(q, x)) <=> In(m, q) \/ m = x
         /\ Distinct(q) /\ (\A m : In(m, q) /\ m.t = "send" => x.t # "send" \/ m.c # x.c)
              => Distinct(Append(q, x))
<1> DEFINE r == Append(q, x)
<1>1. /\ r \in Seq(Messages) /\ Len(q) \in Nat /\ Len(r) = Len(q) + 1 /\ r[Len(q) + 1] = x
      /\ \A i \in 1 .. Len(q) : r[i] = q[i]
  OBVIOUS
<1>2. ASSUME NEW m PROVE In(m, r) <=> In(m, q) \/ m = x
  BY <1>1 DEF In
<1>3. ASSUME Distinct(q), \A m : In(m, q) /\ m.t = "send" => x.t # "send" \/ m.c # x.c
      PROVE  Distinct(r)
  <2>1. \A i \in 1 .. Len(q) : q[i].t = "send" => x.t # "send" \/ q[i].c # x.c
    BY <1>3 DEF In
  <2>2. \A i \in 1 .. Len(r) : i = Len(q) + 1 \/ i \in 1 .. Len(q)
    BY <1>1
  <2>3. ASSUME NEW i \in 1 .. Len(r), NEW j \in 1 .. Len(r),
               r[i].t = "send", r[j].t = "send", r[i].c = r[j].c
        PROVE  i = j
    BY <1>1, <1>3, <2>1, <2>2, <2>3 DEF Distinct
  <2> QED BY <2>3 DEF Distinct
<1> QED BY <1>1, <1>2, <1>3

\* An empty queue holds nothing.
LEMMA NothingIn ==
  <<>> \in Seq(Messages) /\ Distinct(<<>>) /\ \A m : ~In(m, <<>>)
BY DEF Distinct, In

\* What a message is made of.
LEMMA Made ==
  ASSUME NEW t \in Types, NEW c \in 0 .. MaxChats, NEW by \in 0 .. MaxChats
  PROVE  /\ Message(t, c, by) \in Messages
         /\ Message(t, c, by).t = t /\ Message(t, c, by).c = c /\ Message(t, c, by).by = by
BY DEF Message, Messages

\* Whom a message of the desktop reaches.
LEMMA Sending ==
  ASSUME ChatTypeOK, NEW t \in Types, NEW to, NEW c \in 0 .. MaxChats, NEW by \in 0 .. MaxChats,
         Sends(t, to, c, by)
  PROVE  /\ toPhone' \in [Phones -> Seq(Messages)]
         /\ \A p \in Phones : \A m : In(m, toPhone'[p]) <=>
              In(m, toPhone[p]) \/ (linked /\ p = to /\ m = Message(t, c, by))
<1>1. \A p \in Phones : toPhone'[p] = IF linked /\ p = to THEN Append(toPhone[p], Message(t, c, by))
                                      ELSE toPhone[p]
  BY DEF Sends
<1>2. \A p \in Phones : toPhone[p] \in Seq(Messages)
  BY DEF ChatTypeOK
<1>m. Message(t, c, by) \in Messages
  BY Made
<1>3. ASSUME NEW p \in Phones
      PROVE  /\ toPhone'[p] \in Seq(Messages)
             /\ \A m : In(m, toPhone'[p]) <=>
                  In(m, toPhone[p]) \/ (linked /\ p = to /\ m = Message(t, c, by))
  <2>1. /\ Append(toPhone[p], Message(t, c, by)) \in Seq(Messages)
        /\ \A m : In(m, Append(toPhone[p], Message(t, c, by))) <=>
             In(m, toPhone[p]) \/ m = Message(t, c, by)
    BY <1>2, <1>m, Longer
  <2> QED BY <1>1, <1>2, <2>1
<1> QED BY <1>3 DEF Sends

\* What the desktop takes is the first message of a phone.
LEMMA Taking ==
  ASSUME ChatTypeOK, NEW p \in Phones, NEW t, Takes(p, t)
  PROVE  /\ linked /\ toDesktop[p] \in Seq(Messages) /\ toDesktop[p] # <<>>
         /\ Head(toDesktop[p]) \in Messages /\ Head(toDesktop[p]).t = t
         /\ Head(toDesktop[p]).c \in 0 .. MaxChats
         /\ In(Head(toDesktop[p]), toDesktop[p])
         /\ toDesktop' \in [Phones -> Seq(Messages)]
         /\ toDesktop'[p] = Tail(toDesktop[p])
         /\ \A q \in Phones \ {p} : toDesktop'[q] = toDesktop[q]
BY Shorter DEF Takes, ChatTypeOK, Messages

\* The chats of a queue are those of its messages.
LEMMA Listed ==
  ASSUME NEW q \in Seq(Messages), NEW T
  PROVE  \A c : c \in ChatsOf(q, T) <=> \E m \in Messages : In(m, q) /\ m.t \in T /\ m.c = c
<1>1. DOMAIN q = 1 .. Len(q) /\ \A i \in 1 .. Len(q) : q[i] \in Messages
  OBVIOUS
<1> QED BY <1>1 DEF ChatsOf, In

\* They are chats, in every queue.
LEMMA OwnChats ==
  ASSUME ChatTypeOK, ChatsAssumed, Coming, Going, NEW p \in Phones, NEW T
  PROVE  ChatsOf(toDesktop[p], T) \subseteq Chats /\ ChatsOf(toPhone[p], T) \subseteq Chats
<1>1. toDesktop[p] \in Seq(Messages) /\ toPhone[p] \in Seq(Messages)
  BY DEF ChatTypeOK
<1>2. 1 .. Len(sent) \subseteq Chats
  BY DEF ChatTypeOK, ChatsAssumed, Chats
<1>3. ASSUME NEW c \in ChatsOf(toDesktop[p], T) PROVE c \in Chats
  BY <1>1, <1>2, Listed DEF Coming, IsOwn
<1>4. ASSUME NEW c \in ChatsOf(toPhone[p], T) PROVE c \in Chats
  BY <1>1, <1>2, Listed DEF Going, IsOwn
<1> QED BY <1>3, <1>4

-----------------------------------------------------------------------------
(* Types.                                                                  *)

\* Every step keeps the types.
LEMMA ChatTypeStep == ChatInv /\ [ChatNext]_chatVars => ChatTypeOK'
<1> SUFFICES ASSUME ChatInv, [ChatNext]_chatVars PROVE ChatTypeOK'
  OBVIOUS
<1> USE DEF Types
<1>g. /\ {"delta", "done", "answer", "apiError", "finished"} = Signals
      /\ <<"delta">> \in Seq(Signals) /\ <<"done">> \in Seq(Signals) /\ <<"finished">> \in Seq(Signals)
      /\ <<"answer", "finished">> \in Seq(Signals) /\ <<"apiError", "finished">> \in Seq(Signals)
      /\ <<"apiError", "apiError", "finished">> \in Seq(Signals)
  BY DEF Signals
<1>0. ChatsAssumed /\ ChatTypeOK /\ Coming /\ Going /\ Taken
  BY DEF ChatInv
<1>q. \A p \in Phones : toDesktop[p] \in Seq(Messages) /\ toPhone[p] \in Seq(Messages)
  BY <1>0 DEF ChatTypeOK
<1>c. \A p \in Phones : \A T : ChatsOf(toDesktop[p], T) \subseteq Chats /\ ChatsOf(toPhone[p], T) \subseteq Chats
  BY <1>0, OwnChats
<1>o. \A p \in Phones : /\ toDesktop[p] # <<>> => Head(toDesktop[p]).c \in Chats /\ Head(toDesktop[p]) \in Messages
                        /\ toPhone[p] # <<>> => Head(toPhone[p]).c \in Chats /\ Head(toPhone[p]) \in Messages
  <2>1. 1 .. Len(sent) \subseteq Chats
    BY <1>0 DEF ChatTypeOK, ChatsAssumed, Chats
  <2> QED BY <1>0, <1>q, <2>1, Shorter DEF Coming, Going, IsOwn
<1>f. Fault => faults' \in 0 .. MaxFaults
  BY <1>0 DEF Fault, ChatsAssumed, ChatTypeOK
<1>s. Len(sent) \in Nat /\ Len(sent) <= MaxChats /\ MaxChats \in Nat /\ MaxRounds \in Nat
      /\ 0 \in 0 .. MaxChats /\ 0 \in 0 .. MaxRounds
  BY <1>0 DEF ChatTypeOK, ChatsAssumed
<1>1. CASE Unlink
  <2>1. missed' \subseteq Chats
    BY <1>0, <1>1, <1>c DEF Unlink, ChatTypeOK
  <2>2. toDesktop' \in [Phones -> Seq(Messages)] /\ faults' \in 0 .. MaxFaults
    BY <1>1, <1>f, NothingIn DEF Unlink
  <2> QED BY <1>0, <1>1, <2>1, <2>2 DEF ChatTypeOK, Unlink, screens, manager, bridge
<1>2. CASE Link
  BY <1>0, <1>2 DEF ChatTypeOK, Link, screens, manager, bridge, history
<1>3. ASSUME NEW p \in Phones, Offline(p) PROVE ChatTypeOK'
  <2> DEFINE m == Head(toDesktop[p])
             x == Message("offline", m.c, m.by)
  <2>1. m \in Messages /\ m.c \in Chats /\ m.c \in 0 .. MaxChats /\ m.by \in 0 .. MaxChats
    BY <1>3, <1>o DEF Offline, Messages
  <2>2. x \in Messages
    BY <2>1, Made
  <2>3. /\ toDesktop' \in [Phones -> Seq(Messages)]
        /\ Tail(toDesktop[p]) \in Seq(Messages) /\ Append(toPhone[p], x) \in Seq(Messages)
    BY <1>0, <1>3, <1>q, <2>2, Shorter, Longer DEF Offline, ChatTypeOK
  <2>4. toPhone' \in [Phones -> Seq(Messages)] /\ missed' \subseteq Chats
    BY <1>0, <1>3, <2>1, <2>3 DEF Offline, ChatTypeOK
  <2> QED BY <1>0, <1>3, <2>3, <2>4 DEF ChatTypeOK, Offline, screens, manager, bridge
<1>4. ASSUME NEW p \in Phones, PhoneLost(p) PROVE ChatTypeOK'
  <2>1. missed' \subseteq Chats
    BY <1>0, <1>4, <1>c DEF PhoneLost, ChatTypeOK
  <2>2. faults' \in 0 .. MaxFaults
    BY <1>4, <1>f DEF PhoneLost
  <2> QED BY <1>0, <1>4, <2>1, <2>2, NothingIn DEF ChatTypeOK, PhoneLost, screens, manager, bridge
<1>5. ASSUME NEW p \in Phones, Send(p) PROVE ChatTypeOK'
  <2>1. Message("send", Len(sent) + 1, Len(sent) + 1) \in Messages
    BY <1>s, <1>5, Made DEF Send
  <2>2. toDesktop' \in [Phones -> Seq(Messages)]
    BY <1>0, <1>5, <2>1, Longer DEF Send, ToDesktop, ChatTypeOK
  <2>3. sent' \in Seq(Phones) /\ Len(sent') <= MaxChats
    BY <1>0, <1>s, <1>5 DEF Send, ChatTypeOK
  <2>4. Len(sent) + 1 \in 0 .. MaxChats
    BY <1>s, <1>5 DEF Send
  <2>5. turn' \in [Phones -> 0 .. MaxChats] /\ cleared' \in [Phones -> BOOLEAN]
    BY <1>0, <1>5, <2>4 DEF Send, ChatTypeOK
  <2> QED BY <1>0, <1>5, <2>2, <2>3, <2>5 DEF Send, ChatTypeOK, manager, bridge, history
<1>6. ASSUME NEW p \in Phones, Cancel(p) PROVE ChatTypeOK'
  <2>1. Message("cancel", turn[p], turn[p]) \in Messages
    BY <1>0, Made DEF ChatTypeOK
  <2>2. toDesktop' \in [Phones -> Seq(Messages)]
    BY <1>0, <1>6, <2>1, Longer DEF Cancel, ToDesktop, ChatTypeOK
  <2> QED BY <1>0, <1>s, <1>6, <2>2 DEF Cancel, ChatTypeOK, manager, bridge, history
<1>7. ASSUME NEW p \in Phones, Watchdog(p) PROVE ChatTypeOK'
  BY <1>0, <1>s, <1>7 DEF ChatTypeOK, Watchdog, links, manager, bridge, history
<1>8. ASSUME NEW p \in Phones, PhoneReceives(p) PROVE ChatTypeOK'
  <2>1. toPhone' \in [Phones -> Seq(Messages)] /\ Head(toPhone[p]) \in Messages
    BY <1>0, <1>8, Shorter DEF ChatTypeOK, PhoneReceives
  <2>2. /\ cleared' \in [Phones -> BOOLEAN] /\ verified' \in [Phones -> BOOLEAN]
        /\ turn' \in [Phones -> 0 .. MaxChats]
    BY <1>0, <1>s, <1>8 DEF ChatTypeOK, PhoneReceives, Leaves
  <2>3. missed' \subseteq Chats
    BY <1>0, <1>8, <1>o DEF ChatTypeOK, PhoneReceives
  <2> QED BY <1>0, <1>8, <2>1, <2>2, <2>3 DEF ChatTypeOK, PhoneReceives, manager, bridge
<1>a. ASSUME NEW p \in Phones, Unavailable(p) \/ Retry(p) PROVE ChatTypeOK'
  <2>1. cleared' \in [Phones -> BOOLEAN] /\ verified' \in [Phones -> BOOLEAN] /\ faults' \in 0 .. MaxFaults
    BY <1>0, <1>a, <1>f DEF Unavailable, Retry, Leaves, ChatTypeOK, history
  <2> QED BY <1>0, <1>a, <2>1 DEF Unavailable, Retry, ChatTypeOK, links, manager, bridge, history
<1>9. ASSUME NEW p \in Phones, ChatRefused(p) \/ ChatAccepted(p) PROVE ChatTypeOK'
  <2> DEFINE c == Head(toDesktop[p]).c
  <2>1. Takes(p, "send")
    BY <1>9 DEF ChatRefused, ChatAccepted
  <2>2. c \in 1 .. Len(sent) /\ toDesktop' \in [Phones -> Seq(Messages)]
    BY <1>0, <2>1, Taking DEF Coming, IsOwn
  <2>3. c \in Chats /\ c \in 0 .. MaxChats /\ c # 0
    BY <1>s, <2>2 DEF Chats
  <2>4. CASE ChatRefused(p)
    <3>1. toPhone' \in [Phones -> Seq(Messages)]
      BY <1>0, <2>3, <2>4, Sending DEF ChatRefused
    <3>2. ended' \in [Chats -> Nat] /\ handled' \subseteq Chats
      BY <1>0, <2>3, <2>4 DEF ChatRefused, Ends, ChatTypeOK
    <3> QED BY <1>0, <2>2, <2>4, <3>1, <3>2 DEF ChatRefused, ChatTypeOK, screens, manager, bridge
  <2>5. CASE ChatAccepted(p)
    BY <1>0, <1>s, <2>2, <2>3, <2>5 DEF ChatsAssumed, ChatAccepted, Begins, ChatTypeOK, screens
  <2> QED BY <1>9, <2>4, <2>5
<1>10. ASSUME NEW p \in Phones, ChatCancel(p) PROVE ChatTypeOK'
  BY <1>0, <1>10, Taking DEF ChatTypeOK, ChatCancel, screens, manager, history
<1>11. CASE OwnTurn
  BY <1>0, <1>s, <1>11 DEF ChatTypeOK, OwnTurn, Begins, links, screens, manager, history
<1>12. CASE Stop
  BY <1>0, <1>12 DEF ChatTypeOK, Stop, links, screens, manager, history
<1>13. CASE Delta
  BY <1>0, <1>g, <1>13 DEF ChatTypeOK, Delta, Signal, links, screens, manager, history
<1>14. CASE RoundDone
  <2>1. rounds' \in 0 .. MaxRounds
    BY <1>0, <1>s, <1>14 DEF ChatTypeOK, RoundDone
  <2>2. gui' \in Seq(Signals)
    BY <1>0, <1>g, <1>14 DEF ChatTypeOK, RoundDone, Signal
  <2> QED BY <1>0, <1>14, <2>1, <2>2 DEF ChatTypeOK, RoundDone, links, screens, manager, history
<1>15. CASE TurnOver
  <2>1. gui' \in Seq(Signals)
    <3>1. \A x \in Seq(Signals) : gui \o x \in Seq(Signals)
      BY <1>0 DEF ChatTypeOK
    <3> QED BY <1>g, <1>15, <3>1 DEF TurnOver, Signal
  <2> QED BY <1>0, <1>15, <2>1 DEF ChatTypeOK, TurnOver, links, screens, manager, history
<1>16. CASE OnDelta
  <2>1. toPhone' \in [Phones -> Seq(Messages)]
    BY <1>0, <1>16, Sending DEF OnDelta, ChatTypeOK
  <2>2. gui' \in Seq(Signals)
    BY <1>0, <1>16 DEF OnDelta, Hears, ChatTypeOK
  <2> QED BY <1>0, <1>16, <2>1, <2>2 DEF ChatTypeOK, OnDelta, screens, manager, history
<1>17. CASE OnStreamDone \/ OnApiError \/ OnFinished
  <2>1. /\ toPhone' \in [Phones -> Seq(Messages)] /\ ended' \in [Chats -> Nat]
        /\ Forgets /\ gui' \in Seq(Signals) /\ missed' \subseteq Chats /\ early' \subseteq Chats
    <3>1. PICK t \in Types : Closes(t)
      BY <1>17 DEF OnStreamDone, OnApiError, OnFinished
    <3>2. toPhone' \in [Phones -> Seq(Messages)]
      BY <1>0, <3>1, Sending DEF Closes, ChatTypeOK
    <3>3. ended' \in [Chats -> Nat]
      <4>1. pending # 0 => ended[pending] + 1 \in Nat
        BY <1>0, <1>s DEF ChatTypeOK, Chats
      <4> QED BY <1>0, <3>1, <4>1 DEF Closes, Ends, ChatTypeOK
    <3>4. Forgets /\ gui # <<>> /\ gui' = Tail(gui)
      BY <1>17 DEF OnStreamDone, OnApiError, OnFinished, Hears
    <3>5. gui' \in Seq(Signals)
      BY <1>0, <3>4 DEF ChatTypeOK
    <3>6. pending # 0 => pending \in Chats
      BY <1>0, <1>s DEF ChatTypeOK, Chats
    <3>7. missed' \subseteq Chats
      BY <1>0, <3>1, <3>6 DEF Closes, ChatTypeOK
    <3>8. early' \subseteq Chats
      BY <1>0, <1>17, <3>6 DEF OnStreamDone, OnApiError, OnFinished, ChatTypeOK
    <3> QED BY <3>2, <3>3, <3>4, <3>5, <3>7, <3>8
  <2> QED BY <1>0, <1>s, <1>17, <2>1 DEF OnStreamDone, OnApiError, OnFinished, Forgets, ChatTypeOK, screens
<1>18. CASE UNCHANGED chatVars
  BY <1>0, <1>18 DEF ChatTypeOK, chatVars, links, screens, manager, bridge, history
<1> QED
  BY <1>1, <1>2, <1>3, <1>4, <1>5, <1>6, <1>7, <1>8, <1>9, <1>a, <1>10, <1>11, <1>12, <1>13, <1>14,
     <1>15, <1>16, <1>17, <1>18 DEF ChatNext

-----------------------------------------------------------------------------
(* Chats stay whose they are, and what was missed stays missed.            *)

\* What a list of senders says stays when it grows.
LEMMA Grows ==
  ASSUME ChatTypeOK, [ChatNext]_chatVars
  PROVE  /\ \A c, p : IsOwn(c, p) => IsOwn(c, p)'
         /\ 1 .. Len(sent) \subseteq 1 .. Len(sent')
         /\ missed \subseteq missed'
<1>1. \/ sent' = sent
      \/ \E p \in Phones : sent' = Append(sent, p)
  BY DEF ChatNext, Unlink, Link, Offline, PhoneLost, Send, Cancel, Watchdog, PhoneReceives,
     Unavailable, Retry, ChatRefused, ChatAccepted, ChatCancel, OwnTurn, Stop, Delta, RoundDone, TurnOver, OnDelta,
     OnStreamDone, OnApiError, OnFinished, chatVars, screens
<1>2. missed \subseteq missed'
  BY DEF ChatNext, Unlink, Link, Offline, PhoneLost, Send, Cancel, Watchdog, PhoneReceives,
     Unavailable, Retry, ChatRefused, ChatAccepted, ChatCancel, OwnTurn, Stop, Delta, RoundDone, TurnOver, OnDelta,
     OnStreamDone, OnApiError, OnFinished, Closes, chatVars, history
<1>3. sent \in Seq(Phones)
  BY DEF ChatTypeOK
<1>4. /\ Len(sent) \in Nat /\ Len(sent') \in Nat /\ Len(sent) <= Len(sent')
      /\ \A c \in 1 .. Len(sent) : c \in 1 .. Len(sent') /\ sent'[c] = sent[c]
  BY <1>1, <1>3
<1>5. ASSUME NEW c, NEW p, IsOwn(c, p) PROVE IsOwn(c, p)'
  BY <1>4, <1>5 DEF IsOwn
<1> QED BY <1>2, <1>4, <1>5

-----------------------------------------------------------------------------
(* What goes to the phones.                                                *)

\* Every step keeps what is sent to a phone its own.
LEMMA GoingStep == ChatInv /\ [ChatNext]_chatVars => Going'
<1> SUFFICES ASSUME ChatInv, [ChatNext]_chatVars PROVE Going'
  OBVIOUS
<1>0. /\ NoPhone \notin Phones /\ ChatTypeOK /\ Going /\ Coming /\ Taken /\ PendingRuns
      /\ toPhone \in [Phones -> Seq(Messages)] /\ Len(sent) \in Nat /\ Len(sent) <= MaxChats
      /\ pending \in 0 .. MaxChats /\ running \in 0 .. MaxChats /\ MaxChats \in Nat
      /\ pending = 0 <=> pendingPhone = NoPhone
  BY DEF ChatInv, ChatsAssumed, ChatTypeOK
<1>1. \A c, p : IsOwn(c, p) => IsOwn(c, p)'
  BY <1>0, Grows
<1>2. CASE \A p \in Phones : \A m : In(m, toPhone'[p]) => In(m, toPhone[p])
  BY <1>0, <1>1, <1>2 DEF Going
<1>3. ASSUME NEW t \in Types, NEW to \in Phones \union {NoPhone},
             NEW c \in 0 .. MaxChats, Sends(t, to, c, c), to # NoPhone => IsOwn(c, to)
      PROVE  Going'
  <2>1. /\ Message(t, c, c).c = c /\ Message(t, c, c).by = c
        /\ \A p \in Phones : \A m : In(m, toPhone'[p]) =>
             In(m, toPhone[p]) \/ (p = to /\ m = Message(t, c, c))
    BY <1>0, <1>3, Made, Sending
  <2>2. ASSUME NEW p \in Phones, NEW m \in Messages, In(m, toPhone'[p])
        PROVE  IsOwn(m.c, p)' /\ m.by = m.c
    <3>1. CASE In(m, toPhone[p])
      BY <1>0, <1>1, <3>1 DEF Going
    <3>2. CASE p = to /\ m = Message(t, c, c)
      BY <1>0, <1>1, <1>3, <2>1, <3>2
    <3> QED BY <2>1, <2>2, <3>1, <3>2
  <2> QED BY <2>2 DEF Going
<1>4. CASE UNCHANGED toPhone
  BY <1>2, <1>4
<1>5. ASSUME NEW p \in Phones, PhoneLost(p) \/ PhoneReceives(p) PROVE Going'
  <2>1. \A q \in Phones : \/ toPhone'[q] = toPhone[q]
                          \/ toPhone'[q] = <<>>
                          \/ toPhone[q] # <<>> /\ toPhone'[q] = Tail(toPhone[q])
    BY <1>0, <1>5 DEF PhoneLost, PhoneReceives
  <2>2. ASSUME NEW q \in Phones PROVE \A m : In(m, toPhone'[q]) => In(m, toPhone[q])
    <3>1. toPhone[q] \in Seq(Messages)
      BY <1>0
    <3> QED BY <2>1, <3>1, Shorter, NothingIn
  <2> QED BY <1>2, <2>2
\* The relay answers what is the phone's own.
<1>o. ASSUME NEW p \in Phones, Offline(p) PROVE Going'
  <2> DEFINE h == Head(toDesktop[p])
             x == Message("offline", h.c, h.by)
  <2>1. toDesktop[p] \in Seq(Messages) /\ toPhone[p] \in Seq(Messages) /\ toDesktop[p] # <<>>
    BY <1>0, <1>o DEF Offline, ChatTypeOK
  <2>2. h \in Messages /\ IsOwn(h.c, p) /\ h.by = h.c
    BY <1>0, <2>1, Shorter DEF Coming
  <2>3. x \in Messages /\ x.c = h.c /\ x.by = h.by
    BY <2>2, Made DEF Types, Messages
  <2>4. /\ toPhone'[p] = Append(toPhone[p], x)
        /\ \A q \in Phones \ {p} : toPhone'[q] = toPhone[q]
    BY <1>0, <1>o DEF Offline
  <2>5. \A m : In(m, toPhone'[p]) => In(m, toPhone[p]) \/ m = x
    BY <2>1, <2>3, <2>4, Longer
  <2> QED BY <1>0, <1>1, <2>2, <2>3, <2>4, <2>5 DEF Going
<1>6. ASSUME NEW p \in Phones, ChatRefused(p) PROVE Going'
  <2>1. IsOwn(Head(toDesktop[p]).c, p) /\ Head(toDesktop[p]).c \in 0 .. MaxChats
    BY <1>0, <1>6, Taking DEF ChatRefused, Coming
  <2> QED BY <1>3, <1>6, <2>1 DEF ChatRefused, Types
<1>7. ASSUME NEW t \in Types, Sends(t, pendingPhone, pending, running) PROVE Going'
  <2>1. CASE pending = 0
    <3>1. \A q \in Phones : toPhone'[q] = toPhone[q]
      BY <1>0, <1>7, <2>1 DEF Sends
    <3> QED BY <1>2, <3>1
  <2>2. CASE pending # 0
    <3>1. running = pending /\ IsOwn(pending, pendingPhone) /\ pendingPhone \in Phones \union {NoPhone}
      BY <1>0, <2>2 DEF PendingRuns, Taken, ChatTypeOK
    <3> QED BY <1>0, <1>3, <1>7, <3>1
  <2> QED BY <2>1, <2>2
<1>8. CASE OnDelta \/ OnStreamDone \/ OnApiError \/ OnFinished
  BY <1>7, <1>8 DEF OnDelta, OnStreamDone, OnApiError, OnFinished, Closes, Types
<1>9. CASE \/ Unlink \/ Link \/ OwnTurn \/ Stop \/ Delta \/ RoundDone \/ TurnOver \/ UNCHANGED chatVars
           \/ \E p \in Phones : Send(p) \/ Cancel(p) \/ Watchdog(p) \/ Unavailable(p) \/ Retry(p)
                                \/ ChatAccepted(p) \/ ChatCancel(p)
  BY <1>4, <1>9 DEF Unlink, Link, OwnTurn, Stop, Delta, RoundDone, TurnOver, chatVars,
     Send, Cancel, Watchdog, Unavailable, Retry, ChatAccepted, ChatCancel, links
<1> QED BY <1>5, <1>o, <1>6, <1>8, <1>9 DEF ChatNext

-----------------------------------------------------------------------------
(* Chats the desktop has taken, and their ends.                            *)

\* Every step keeps what the turn's thread may have signalled.
LEMMA ThreadStep == ChatInv /\ [ChatNext]_chatVars => Thread'
<1> SUFFICES ASSUME ChatInv, [ChatNext]_chatVars PROVE Thread'
  OBVIOUS
<1>0. Thread /\ gui \in Seq(Signals) /\ Len(gui) \in Nat
  BY DEF ChatInv, ChatTypeOK
<1>1. ASSUME UNCHANGED <<busy, working, gui>> PROVE Thread'
  BY <1>0, <1>1 DEF Thread
\* The thread works, and none of its signals was the last.
<1>2. ASSUME working, working' = working, busy' = busy, NEW x \in Streams, Signal(<<x>>)
      PROVE  Thread'
  <2>1. /\ Len(gui') = Len(gui) + 1 /\ gui'[Len(gui) + 1] = x
        /\ \A i \in 1 .. Len(gui) : gui'[i] = gui[i]
    BY <1>0, <1>2 DEF Signal
  <2>2. \A i \in 1 .. Len(gui') : gui'[i] \in Streams
    BY <1>0, <1>2, <2>1 DEF Thread
  <2> QED BY <1>0, <1>2, <2>2 DEF Thread, Streams
<1>3. CASE Delta \/ RoundDone
  BY <1>2, <1>3 DEF Delta, RoundDone, Streams
<1>4. CASE TurnOver
  <2>1. ASSUME NEW x \in Seq({"answer", "apiError", "finished"}), gui' = gui \o x,
               \A i \in 1 .. Len(x) : x[i] = "finished" => i = Len(x)
        PROVE  Thread'
    <3>1. /\ Len(gui') = Len(gui) + Len(x) /\ Len(x) \in Nat
          /\ \A i \in 1 .. Len(gui) : gui'[i] = gui[i]
          /\ \A i \in 1 .. Len(gui') : i > Len(gui) => i - Len(gui) \in 1 .. Len(x) /\ gui'[i] = x[i - Len(gui)]
      BY <1>0, <2>1
    <3>2. ASSUME NEW i \in 1 .. Len(gui'), gui'[i] = "finished" PROVE i = Len(gui')
      <4>1. ~(i <= Len(gui))
        BY <1>0, <1>4, <3>1, <3>2 DEF TurnOver, Thread, Streams
      <4>2. i > Len(gui)
        BY <1>0, <3>1, <4>1
      <4>3. i - Len(gui) \in 1 .. Len(x) /\ x[i - Len(gui)] = "finished"
        BY <3>1, <3>2, <4>2
      <4>4. i - Len(gui) = Len(x)
        BY <2>1, <4>3
      <4> QED BY <1>0, <3>1, <4>4
    <3>3. working' = FALSE /\ busy' = busy /\ busy
      BY <1>0, <1>4 DEF TurnOver, Thread
    <3> QED BY <3>2, <3>3 DEF Thread
  <2> DEFINE A == <<"answer", "finished">>
             B == <<"apiError", "finished">>
             C == <<"apiError", "apiError", "finished">>
             D == <<"finished">>
  <2>2. /\ A \in Seq({"answer", "apiError", "finished"}) /\ \A i \in 1 .. Len(A) : A[i] = "finished" => i = Len(A)
        /\ B \in Seq({"answer", "apiError", "finished"}) /\ \A i \in 1 .. Len(B) : B[i] = "finished" => i = Len(B)
    OBVIOUS
  <2>3. /\ C \in Seq({"answer", "apiError", "finished"}) /\ \A i \in 1 .. Len(C) : C[i] = "finished" => i = Len(C)
        /\ D \in Seq({"answer", "apiError", "finished"}) /\ \A i \in 1 .. Len(D) : D[i] = "finished" => i = Len(D)
    OBVIOUS
  <2>4. gui' = gui \o A \/ gui' = gui \o B \/ gui' = gui \o C \/ gui' = gui \o D
    BY <1>4 DEF TurnOver, Signal
  <2> QED BY <2>1, <2>2, <2>3, <2>4
\* What is heard was first.
<1>5. ASSUME gui # <<>>, gui' = Tail(gui), working' = working,
             busy' = busy \/ (busy' = FALSE /\ Head(gui) = "finished")
      PROVE  Thread'
  <2>1. /\ Len(gui') = Len(gui) - 1 /\ Len(gui) >= 1 /\ Head(gui) = gui[1]
        /\ \A i \in 1 .. Len(gui') : i + 1 \in 1 .. Len(gui) /\ gui'[i] = gui[i + 1]
    BY <1>0, <1>5
  <2>2. \A i \in 1 .. Len(gui') : gui'[i] = "finished" => i = Len(gui')
    BY <1>0, <2>1 DEF Thread
  <2>3. CASE busy' = busy
    BY <1>0, <1>5, <2>1, <2>2, <2>3 DEF Thread
  <2>4. CASE busy' = FALSE /\ Head(gui) = "finished"
    <3>1. 1 \in 1 .. Len(gui) /\ gui[1] = "finished"
      BY <1>0, <2>1, <2>4
    <3>2. Len(gui) = 1 /\ ~working
      BY <1>0, <3>1 DEF Thread, Streams
    <3>3. gui' = <<>>
      BY <1>0, <1>5, <3>2
    <3> QED BY <1>5, <2>2, <2>4, <3>2, <3>3 DEF Thread
  <2> QED BY <1>5, <2>3, <2>4
<1>6. CASE OnDelta \/ OnStreamDone \/ OnApiError \/ OnFinished
  BY <1>5, <1>6 DEF OnDelta, OnStreamDone, OnApiError, OnFinished, Hears
<1>7. ASSUME NEW c, ~busy, Begins(c) PROVE Thread'
  BY <1>0, <1>7 DEF Thread, Begins
<1>8. CASE OwnTurn \/ \E p \in Phones : ChatAccepted(p)
  BY <1>7, <1>8 DEF OwnTurn, ChatAccepted
<1>9. CASE \/ Unlink \/ Link \/ Stop \/ UNCHANGED chatVars
           \/ \E p \in Phones : \/ Offline(p) \/ PhoneLost(p) \/ Send(p) \/ Cancel(p) \/ Watchdog(p)
                                \/ PhoneReceives(p) \/ Unavailable(p) \/ Retry(p) \/ ChatCancel(p)
                                \/ ChatRefused(p)
  BY <1>1, <1>9 DEF Unlink, Link, Stop, chatVars, Offline, PhoneLost, Send, Cancel, Watchdog,
     PhoneReceives, Unavailable, Retry, ChatCancel, ChatRefused, bridge
<1> QED BY <1>3, <1>4, <1>6, <1>8, <1>9 DEF ChatNext

\* Every step keeps the accounts of what was taken and ended.
LEMMA TakenStep == ChatInv /\ [ChatNext]_chatVars => (Taken /\ EndsOnce /\ PendingRuns)'
<1> SUFFICES ASSUME ChatInv, [ChatNext]_chatVars PROVE (Taken /\ EndsOnce /\ PendingRuns)'
  OBVIOUS
<1>0. /\ ChatTypeOK /\ Coming /\ Taken /\ EndsOnce /\ PendingRuns /\ Thread
      /\ Len(sent) \in Nat /\ Len(sent) <= MaxChats /\ MaxChats \in Nat
      /\ ended \in [Chats -> Nat] /\ pending \in 0 .. MaxChats /\ running \in 0 .. MaxChats
      /\ gui \in Seq(Signals) /\ 0 \notin Chats
  BY DEF ChatInv, ChatsAssumed, ChatTypeOK, Chats
<1>1. (\A c, p : IsOwn(c, p) => IsOwn(c, p)') /\ 1 .. Len(sent) \subseteq 1 .. Len(sent')
  BY <1>0, Grows
<1>2. ASSUME UNCHANGED <<manager, busy, running, handled, ended, early>>, working' => working
      PROVE  (Taken /\ EndsOnce /\ PendingRuns)'
  BY <1>0, <1>1, <1>2 DEF Taken, EndsOnce, PendingRuns, manager
<1>3. ASSUME NEW p \in Phones, ChatRefused(p) \/ ChatAccepted(p)
      PROVE  (Taken /\ EndsOnce /\ PendingRuns)'
  <2> DEFINE c == Head(toDesktop[p]).c
  <2>1. IsOwn(c, p) /\ c \notin handled
    BY <1>0, <1>3, Taking DEF ChatRefused, ChatAccepted, Coming
  <2>2. c \in 1 .. Len(sent) /\ c \in Chats /\ c # 0
    BY <1>0, <2>1 DEF IsOwn, Chats
  <2>3. handled' = handled \union {c} /\ ended[c] = 0 /\ pending # c /\ running # c /\ early' = early
    BY <1>0, <1>3, <2>1, <2>2 DEF ChatRefused, ChatAccepted, Taken
  <2>4. CASE ChatRefused(p)
    <3>1. /\ ended' = [ended EXCEPT ![c] = @ + 1] /\ pending' = pending /\ pendingPhone' = pendingPhone
          /\ busy' = busy /\ running' = running /\ working' = working
      BY <2>4 DEF ChatRefused, Ends, manager, bridge
    <3>2. ended'[c] = 1 /\ \A d \in Chats \ {c} : ended'[d] = ended[d]
      BY <1>0, <2>2, <2>3, <3>1
    <3>3. EndsOnce'
      BY <1>0, <2>2, <2>3, <3>1, <3>2 DEF EndsOnce
    <3>4. Taken'
      BY <1>0, <1>1, <2>2, <2>3, <3>1, <3>2 DEF Taken
    <3> QED BY <1>0, <3>1, <3>3, <3>4 DEF PendingRuns
  <2>5. CASE ChatAccepted(p)
    <3>1. /\ pending = 0 /\ ended' = ended /\ pending' = c /\ pendingPhone' = p
          /\ busy' = TRUE /\ running' = c
      BY <1>0, <2>5 DEF ChatAccepted, Begins, PendingRuns
    <3>2. EndsOnce'
      BY <1>0, <2>2, <2>3, <3>1 DEF EndsOnce, Chats
    <3> QED BY <1>0, <1>1, <2>1, <2>2, <2>3, <3>1, <3>2 DEF Taken, PendingRuns
  <2> QED BY <1>3, <2>4, <2>5
<1>4. CASE OwnTurn
  BY <1>0, <1>1, <1>4 DEF OwnTurn, Begins, Taken, EndsOnce, PendingRuns, manager, history
\* A stream that is not the last may close a chat; nothing else does while the turn works.
<1>5. CASE OnStreamDone \/ OnApiError \/ OnFinished
  <2>1. /\ pending' = 0 /\ handled' = handled /\ working' = working /\ running' \in {running, 0}
        /\ IF pending # 0 THEN Ends(pending) ELSE UNCHANGED ended
    BY <1>5 DEF OnStreamDone, OnApiError, OnFinished, Closes, Forgets
  <2>2. early \subseteq early' /\ (working /\ pending # 0 => pending \in early')
    <3>1. CASE Hears("done")
      BY <1>5, <3>1 DEF OnStreamDone, OnApiError, OnFinished, Hears
    <3>2. CASE ~Hears("done")
      <4>1. Head(gui) \in {"answer", "apiError", "finished"} /\ gui # <<>> /\ early' = early
        BY <1>5, <3>2 DEF OnStreamDone, OnApiError, OnFinished, Hears
      <4>2. Head(gui) = gui[1] /\ 1 \in 1 .. Len(gui)
        BY <1>0, <4>1
      <4> QED BY <1>0, <4>1, <4>2 DEF Thread, Streams
    <3> QED BY <3>1, <3>2
  <2>3. /\ pending # 0 => pending \in Chats /\ ended[pending] = 0 /\ ended'[pending] = 1
        /\ \A d \in Chats \ {pending} : ended'[d] = ended[d]
    BY <1>0, <2>1 DEF Ends, Taken, Chats
  <2>4. EndsOnce'
    BY <1>0, <2>1, <2>2, <2>3 DEF EndsOnce
  <2>5. Taken'
    BY <1>0, <1>1, <2>1, <2>3 DEF Taken
  <2> QED BY <2>1, <2>4, <2>5 DEF PendingRuns
<1>6. CASE \/ Unlink \/ Link \/ Stop \/ Delta \/ RoundDone \/ TurnOver \/ OnDelta \/ UNCHANGED chatVars
           \/ \E p \in Phones : Offline(p) \/ PhoneLost(p) \/ Send(p) \/ Cancel(p) \/ Watchdog(p)
                                \/ PhoneReceives(p) \/ Unavailable(p) \/ Retry(p) \/ ChatCancel(p)
  BY <1>2, <1>6 DEF Unlink, Link, Stop, Delta, RoundDone, TurnOver, OnDelta, chatVars, Offline,
     PhoneLost, Send, Cancel, Watchdog, PhoneReceives, Unavailable, Retry, ChatCancel, bridge, history
<1> QED BY <1>3, <1>4, <1>5, <1>6 DEF ChatNext

-----------------------------------------------------------------------------
(* What comes from the phones.                                             *)

\* Every step keeps what a phone sends its own, and new.
LEMMA ComingStep == ChatInv /\ [ChatNext]_chatVars => Coming'
<1> SUFFICES ASSUME ChatInv, [ChatNext]_chatVars PROVE Coming'
  OBVIOUS
<1>0. /\ ChatTypeOK /\ Coming /\ Taken /\ Awaited
      /\ \A q \in Phones : toDesktop[q] \in Seq(Messages)
      /\ toDesktop \in [Phones -> Seq(Messages)] /\ turn \in [Phones -> 0 .. MaxChats]
      /\ Len(sent) \in Nat /\ Len(sent) <= MaxChats /\ MaxChats \in Nat
  BY DEF ChatInv, ChatsAssumed, ChatTypeOK
<1>1. \A c, q : IsOwn(c, q) => IsOwn(c, q)'
  BY <1>0, Grows
<1>2. ASSUME handled' = handled,
             \A q \in Phones : \/ toDesktop'[q] = toDesktop[q]
                               \/ toDesktop'[q] = <<>>
                               \/ toDesktop[q] # <<>> /\ toDesktop'[q] = Tail(toDesktop[q])
      PROVE  Coming'
  <2>1. ASSUME NEW q \in Phones
        PROVE  /\ Distinct(toDesktop'[q])
               /\ \A m : In(m, toDesktop'[q]) => In(m, toDesktop[q])
    <3>1. Distinct(toDesktop[q]) /\ toDesktop[q] \in Seq(Messages)
      BY <1>0 DEF Coming
    <3> QED BY <1>2, <3>1, Shorter, NothingIn
  <2> QED BY <1>0, <1>1, <1>2, <2>1 DEF Coming
<1>3. ASSUME NEW p \in Phones, Offline(p) \/ PhoneLost(p) \/ ChatCancel(p) PROVE Coming'
  BY <1>0, <1>2, <1>3 DEF Offline, PhoneLost, ChatCancel, Takes, history
<1>4. CASE Unlink
  BY <1>2, <1>4 DEF Unlink
<1>5. ASSUME NEW p \in Phones, NEW t \in {"send", "cancel"}, NEW c \in 0 .. MaxChats,
             ToDesktop(p, t, c), IsOwn(c, p)', handled' = handled,
             t = "send" => c \notin handled /\ c \notin 1 .. Len(sent)
      PROVE  Coming'
  <2> DEFINE x == Message(t, c, c)
  <2>1. x \in Messages /\ x.t = t /\ x.c = c /\ x.by = c
    BY <1>5, Made DEF Types
  <2>2. \A m \in Messages : In(m, toDesktop[p]) /\ m.t = "send" => x.t # "send" \/ m.c # x.c
    BY <1>0, <1>5, <2>1 DEF Coming, IsOwn
  <2>3. \A m : In(m, toDesktop[p]) => m \in Messages
    BY <1>0 DEF In
  <2>4. /\ toDesktop'[p] = Append(toDesktop[p], x)
        /\ \A q \in Phones \ {p} : toDesktop'[q] = toDesktop[q]
    BY <1>0, <1>5 DEF ToDesktop
  <2>5. /\ Distinct(toDesktop'[p])
        /\ \A m : In(m, toDesktop'[p]) <=> In(m, toDesktop[p]) \/ m = x
    BY <1>0, <2>1, <2>2, <2>3, <2>4, Longer DEF Coming
  <2>6. ASSUME NEW q \in Phones, NEW m \in Messages, In(m, toDesktop'[q])
        PROVE  IsOwn(m.c, q)' /\ m.by = m.c /\ (m.t = "send" => m.c \notin handled)
    <3>1. CASE In(m, toDesktop[q])
      BY <1>0, <1>1, <3>1 DEF Coming
    <3>2. CASE q = p /\ m = x
      BY <1>5, <2>1, <3>2
    <3> QED BY <2>4, <2>5, <2>6, <3>1, <3>2
  <2>7. \A q \in Phones : Distinct(toDesktop'[q])
    BY <1>0, <2>4, <2>5 DEF Coming
  <2> QED BY <1>5, <2>6, <2>7 DEF Coming
<1>6. ASSUME NEW p \in Phones, Send(p) PROVE Coming'
  <2>0. PICK c \in 0 .. MaxChats : c = Len(sent) + 1
    BY <1>0, <1>6 DEF Send
  <2>1. /\ sent' = Append(sent, p) /\ ToDesktop(p, "send", c) /\ handled' = handled
        /\ c \in 0 .. MaxChats /\ c \notin 1 .. Len(sent)
    BY <1>0, <1>6, <2>0 DEF Send, history
  <2>2. IsOwn(c, p)' /\ c \notin handled
    BY <1>0, <2>0, <2>1 DEF IsOwn, ChatTypeOK, Taken
  <2> QED BY <1>5, <2>1, <2>2
<1>7. ASSUME NEW p \in Phones, Cancel(p) PROVE Coming'
  <2>0. PICK c \in 0 .. MaxChats : c = turn[p]
    BY <1>0
  <2>1. IsOwn(c, p)' /\ ToDesktop(p, "cancel", c) /\ handled' = handled
    BY <1>0, <1>1, <1>7, <2>0 DEF Cancel, Awaited, history
  <2> QED BY <1>5, <2>1
<1>8. ASSUME NEW p \in Phones, ChatRefused(p) \/ ChatAccepted(p) PROVE Coming'
  <2> DEFINE h == Head(toDesktop[p])
  <2>1. /\ handled' = handled \union {h.c} /\ Takes(p, "send") /\ sent' = sent
    BY <1>8 DEF ChatRefused, ChatAccepted, screens
  <2>2. /\ toDesktop[p] # <<>> /\ toDesktop'[p] = Tail(toDesktop[p]) /\ h.t = "send"
        /\ h \in Messages /\ In(h, toDesktop[p])
        /\ \A q \in Phones \ {p} : toDesktop'[q] = toDesktop[q]
    BY <1>0, <2>1, Taking
  <2>3. IsOwn(h.c, p) /\ Distinct(toDesktop[p])
    BY <1>0, <2>2 DEF Coming
  <2>4. /\ Distinct(toDesktop'[p])
        /\ \A m : In(m, toDesktop'[p]) => In(m, toDesktop[p])
        /\ \A m : In(m, toDesktop'[p]) /\ m.t = "send" => m.c # h.c
    BY <1>0, <2>2, <2>3, Shorter
  <2>5. ASSUME NEW q \in Phones, NEW m \in Messages, In(m, toDesktop'[q])
        PROVE  IsOwn(m.c, q)' /\ m.by = m.c /\ (m.t = "send" => m.c \notin handled')
    <3>1. IsOwn(m.c, q) /\ m.by = m.c /\ (m.t = "send" => m.c \notin handled)
      BY <1>0, <2>2, <2>4, <2>5 DEF Coming
    <3>2. m.t = "send" => m.c # h.c
      BY <2>3, <2>4, <2>5, <3>1 DEF IsOwn
    <3> QED BY <1>1, <2>1, <3>1, <3>2
  <2>6. \A q \in Phones : Distinct(toDesktop'[q])
    BY <1>0, <2>2, <2>4 DEF Coming
  <2> QED BY <2>5, <2>6 DEF Coming
<1>9. CASE \/ Link \/ OwnTurn \/ Stop \/ Delta \/ RoundDone \/ TurnOver \/ OnDelta \/ OnStreamDone
           \/ OnApiError \/ OnFinished \/ UNCHANGED chatVars
           \/ \E p \in Phones : Watchdog(p) \/ PhoneReceives(p) \/ Unavailable(p) \/ Retry(p)
  <2>1. toDesktop' = toDesktop /\ handled' = handled
    BY <1>9 DEF Link, OwnTurn, Stop, Delta, RoundDone, TurnOver, OnDelta, OnStreamDone, OnApiError,
       OnFinished, chatVars, Watchdog, PhoneReceives, Unavailable, Retry, links, history
  <2> QED BY <1>2, <2>1
<1> QED BY <1>3, <1>4, <1>6, <1>7, <1>8, <1>9 DEF ChatNext

-----------------------------------------------------------------------------
(* What a screen waits for.                                                *)

\* Every step keeps what ends a wait under way.
LEMMA AwaitedStep == ChatInv /\ [ChatNext]_chatVars => Awaited'
<1> SUFFICES ASSUME ChatInv, [ChatNext]_chatVars PROVE Awaited'
  OBVIOUS
<1>0. /\ ChatTypeOK /\ Coming /\ Going /\ Taken /\ Awaited /\ PendingRuns
      /\ \A q \in Phones : toDesktop[q] \in Seq(Messages) /\ toPhone[q] \in Seq(Messages)
      /\ toDesktop \in [Phones -> Seq(Messages)] /\ turn \in [Phones -> 0 .. MaxChats]
      /\ toPhone \in [Phones -> Seq(Messages)]
      /\ Len(sent) \in Nat /\ Len(sent) <= MaxChats /\ MaxChats \in Nat
      /\ pending \in 0 .. MaxChats /\ running \in 0 .. MaxChats
  BY DEF ChatInv, ChatsAssumed, ChatTypeOK
<1>1. (\A c, q : IsOwn(c, q) => IsOwn(c, q)') /\ missed \subseteq missed'
  BY <1>0, Grows
\* Nothing that a screen may wait for goes away.
<1>2. ASSUME \A q \in Phones : turn'[q] \in {turn[q], 0},
             pending' = pending,
             \A q \in Phones : \A m : In(m, toDesktop[q]) /\ m.t = "send" => In(m, toDesktop'[q]),
             \A q \in Phones : \A m : In(m, toPhone[q]) => In(m, toPhone'[q])
      PROVE  Awaited'
  BY <1>0, <1>1, <1>2 DEF Awaited, UnderWay, Asked, Ending
\* What goes away unread was missed.
<1>3. ASSUME turn' = turn, pending' = pending,
             \A q \in Phones : \A m \in Messages :
               m.t = "send" /\ In(m, toDesktop[q]) => In(m, toDesktop'[q]) \/ m.c \in missed',
             \A q \in Phones : \A m \in Messages :
               m.t \in Closing /\ In(m, toPhone[q]) => In(m, toPhone'[q]) \/ m.c \in missed'
      PROVE  Awaited'
  BY <1>0, <1>1, <1>3 DEF Awaited, UnderWay, Asked, Ending
<1>4. CASE Unlink
  <2>1. ASSUME NEW q \in Phones, NEW m \in Messages, m.t = "send", In(m, toDesktop[q])
        PROVE  m.c \in missed'
    <3>1. m.c \in ChatsOf(toDesktop[q], {"send"})
      BY <1>0, <2>1, Listed
    <3> QED BY <1>4, <3>1 DEF Unlink
  <2> QED BY <1>3, <1>4, <2>1 DEF Unlink, screens, manager
<1>l. ASSUME NEW p \in Phones, PhoneLost(p) PROVE Awaited'
  <2>1. ASSUME NEW q \in Phones, NEW m \in Messages, m.t = "send", In(m, toDesktop[q])
        PROVE  In(m, toDesktop'[q]) \/ m.c \in missed'
    <3>1. m.c \in ChatsOf(toDesktop[q], {"send"})
      BY <1>0, <2>1, Listed
    <3> QED BY <1>0, <1>l, <2>1, <3>1 DEF PhoneLost
  <2>2. ASSUME NEW q \in Phones, NEW m \in Messages, m.t \in Closing, In(m, toPhone[q])
        PROVE  In(m, toPhone'[q]) \/ m.c \in missed'
    <3>1. m.c \in ChatsOf(toPhone[q], Closing)
      BY <1>0, <2>2, Listed
    <3> QED BY <1>0, <1>l, <2>2, <3>1 DEF PhoneLost
  <2> QED BY <1>3, <1>l, <2>1, <2>2 DEF PhoneLost, screens, manager
<1>o. ASSUME NEW p \in Phones, Offline(p) PROVE Awaited'
  <2> DEFINE h == Head(toDesktop[p])
             x == Message("offline", h.c, h.by)
  <2>1. toDesktop[p] # <<>> /\ toDesktop[p] \in Seq(Messages) /\ toPhone[p] \in Seq(Messages)
    BY <1>0, <1>o DEF Offline
  <2>2. /\ h \in Messages /\ Tail(toDesktop[p]) = toDesktop'[p]
        /\ \A m : In(m, toDesktop[p]) => m = h \/ In(m, toDesktop'[p])
        /\ \A q \in Phones \ {p} : toDesktop'[q] = toDesktop[q]
    BY <1>0, <1>o, <2>1, Shorter DEF Offline
  <2>3. x \in Messages
    BY <2>2, Made DEF Types, Messages
  <2>4. /\ \A m : In(m, toPhone[p]) => In(m, toPhone'[p])
        /\ \A q \in Phones \ {p} : toPhone'[q] = toPhone[q]
    BY <1>0, <1>o, <2>1, <2>3, Longer DEF Offline
  <2>5. h.t = "send" => h.c \in missed'
    BY <1>o DEF Offline
  <2> QED BY <1>3, <1>o, <2>2, <2>4, <2>5 DEF Offline, screens, manager
<1>5. ASSUME NEW p \in Phones, Send(p) PROVE Awaited'
  <2>0. PICK c \in 0 .. MaxChats : c = Len(sent) + 1
    BY <1>0, <1>5 DEF Send
  <2> DEFINE x == Message("send", c, c)
  <2>1. x \in Messages /\ x.t = "send" /\ x.c = c
    BY Made DEF Types
  <2>2. /\ toDesktop'[p] = Append(toDesktop[p], x)
        /\ \A q \in Phones \ {p} : toDesktop'[q] = toDesktop[q]
        /\ turn' = [turn EXCEPT ![p] = c] /\ toPhone' = toPhone /\ pending' = pending
        /\ sent' = Append(sent, p)
    BY <1>0, <1>5, <2>0 DEF Send, ToDesktop, manager
  <2>3. IsOwn(c, p)' /\ In(x, toDesktop'[p])
    <3>1. In(x, toDesktop'[p])
      BY <1>0, <2>1, <2>2, Longer
    <3>2. sent \in Seq(Phones)
      BY <1>0 DEF ChatTypeOK
    <3> QED BY <1>0, <2>0, <2>2, <3>1, <3>2 DEF IsOwn
  <2>4. ASSUME NEW q \in Phones, turn'[q] # 0
        PROVE  (IsOwn(turn[q], q) /\ UnderWay(turn[q], q))'
    <3>1. CASE q = p
      BY <1>0, <2>1, <2>2, <2>3, <3>1 DEF UnderWay, Asked
    <3>2. CASE q # p
      BY <1>0, <1>1, <2>2, <2>4, <3>2 DEF Awaited, UnderWay, Asked, Ending
    <3> QED BY <3>1, <3>2
  <2> QED BY <2>4 DEF Awaited
<1>6. ASSUME NEW p \in Phones, Cancel(p) PROVE Awaited'
  <2>1. \A m : In(m, toDesktop[p]) => In(m, toDesktop'[p])
    <3>1. Message("cancel", turn[p], turn[p]) \in Messages
      BY <1>0, Made DEF Types
    <3> QED BY <1>0, <1>6, <3>1, Longer DEF Cancel, ToDesktop
  <2> QED BY <1>0, <1>2, <1>6, <2>1 DEF Cancel, ToDesktop, manager
<1>7. ASSUME NEW p \in Phones, ChatCancel(p) PROVE Awaited'
  <2>1. \A m : In(m, toDesktop[p]) /\ m.t = "send" => In(m, toDesktop'[p])
    <3>1. /\ toDesktop[p] # <<>> /\ Head(toDesktop[p]).t = "cancel" /\ toDesktop'[p] = Tail(toDesktop[p])
      BY <1>0, <1>7, Taking DEF ChatCancel
    <3>2. \A m : In(m, toDesktop[p]) => m = Head(toDesktop[p]) \/ In(m, toDesktop'[p])
      BY <1>0, <3>1, Shorter
    <3> QED BY <3>1, <3>2
  <2>2. \A q \in Phones \ {p} : toDesktop'[q] = toDesktop[q]
    BY <1>0, <1>7, Taking DEF ChatCancel
  <2> QED BY <1>2, <1>7, <2>1, <2>2 DEF ChatCancel, screens, manager
<1>8. ASSUME NEW p \in Phones, PhoneReceives(p) PROVE Awaited'
  <2> DEFINE h == Head(toPhone[p])
  <2>1. /\ \A q \in Phones \ {p} : toPhone'[q] = toPhone[q] /\ turn'[q] = turn[q]
        /\ toDesktop' = toDesktop /\ pending' = pending /\ sent' = sent
        /\ toPhone[p] # <<>> /\ toPhone'[p] = Tail(toPhone[p])
        /\ turn'[p] \in {turn[p], 0}
        /\ h.t \in Closing /\ h.c = turn[p] => turn'[p] = 0 \/ h.c \in missed'
    BY <1>0, <1>8 DEF PhoneReceives, manager
  <2>2. \A m : In(m, toPhone[p]) => m = h \/ In(m, toPhone'[p])
    BY <1>0, <2>1, Shorter
  <2>3. ASSUME NEW q \in Phones, turn'[q] # 0
        PROVE  (IsOwn(turn[q], q) /\ UnderWay(turn[q], q))'
    BY <1>0, <1>1, <2>1, <2>2, <2>3 DEF Awaited, UnderWay, Asked, Ending
  <2> QED BY <2>3 DEF Awaited
\* The message that is taken leaves its chat pending, or an error behind.
<1>9. ASSUME NEW p \in Phones, ChatRefused(p) \/ ChatAccepted(p) PROVE Awaited'
  <2> DEFINE h == Head(toDesktop[p])
  <2>1. /\ Takes(p, "send") /\ turn' = turn
        /\ \A q \in Phones : \A m : In(m, toPhone[q]) => In(m, toPhone'[q])
    <3>1. CASE ChatAccepted(p)
      BY <3>1 DEF ChatAccepted, screens
    <3>2. CASE ChatRefused(p)
      <4>1. h.c \in 0 .. MaxChats
        BY <1>0, <3>2, Taking DEF ChatRefused
      <4> QED BY <1>0, <3>2, <4>1, Sending DEF ChatRefused, screens, Types
    <3> QED BY <1>9, <3>1, <3>2
  <2>a. /\ linked /\ h \in Messages /\ h.c \in 0 .. MaxChats
        /\ toDesktop[p] # <<>> /\ toDesktop'[p] = Tail(toDesktop[p])
        /\ \A q \in Phones \ {p} : toDesktop'[q] = toDesktop[q]
    BY <1>0, <2>1, Taking
  <2>2. /\ linked /\ h \in Messages /\ h.c \in 0 .. MaxChats
        /\ \A m : In(m, toDesktop[p]) => m = h \/ In(m, toDesktop'[p])
        /\ \A q \in Phones \ {p} : toDesktop'[q] = toDesktop[q]
    BY <1>0, <2>a, Shorter
  <2>3. \/ pending' = h.c
        \/ \E m \in Messages : In(m, toPhone'[p]) /\ m.t \in Closing /\ m.c = h.c
    <3>1. CASE ChatAccepted(p)
      BY <3>1 DEF ChatAccepted
    <3>2. CASE ChatRefused(p)
      <4>1. PICK c \in 0 .. MaxChats : c = h.c
        BY <2>2
      <4>2. Sends("error", p, c, c) /\ "error" \in Types
        BY <3>2, <4>1 DEF ChatRefused, Types
      <4>3. \A m : In(m, toPhone'[p]) <=> In(m, toPhone[p]) \/ m = Message("error", c, c)
        BY <1>0, <2>2, <4>2, Sending
      <4> QED BY <4>1, <4>2, <4>3, Made DEF Closing
    <3> QED BY <1>9, <3>1, <3>2
  <2>4. pending' = pending \/ pending = 0
    BY <1>0, <1>9 DEF ChatRefused, ChatAccepted, PendingRuns, manager
  <2>5. ASSUME NEW q \in Phones, turn'[q] # 0
        PROVE  (IsOwn(turn[q], q) /\ UnderWay(turn[q], q))'
    BY <1>0, <1>1, <2>1, <2>2, <2>3, <2>4, <2>5 DEF Awaited, UnderWay, Asked, Ending
  <2> QED BY <2>5 DEF Awaited
\* The turn that ends tells the phone that is noted for it.
<1>10. CASE OnStreamDone \/ OnApiError \/ OnFinished
  <2>1. PICK t \in Closing : Sends(t, pendingPhone, pending, running)
    BY <1>10 DEF OnStreamDone, OnApiError, OnFinished, Closes, Closing
  <2>2. turn' = turn /\ toDesktop' = toDesktop
    BY <1>10 DEF OnStreamDone, OnApiError, OnFinished, screens
  <2>3. \A q \in Phones : \A m : In(m, toPhone'[q]) <=>
          In(m, toPhone[q]) \/ (linked /\ q = pendingPhone /\ m = Message(t, pending, running))
    <3>1. t \in Types
      BY <2>1 DEF Types, Closing
    <3> QED BY <1>0, <2>1, <3>1, Sending
  <2>4. /\ Message(t, pending, running) \in Messages
        /\ Message(t, pending, running).t = t /\ Message(t, pending, running).c = pending
    BY <1>0, Made DEF Types, Closing
  <2>5. ASSUME NEW q \in Phones, turn'[q] # 0
        PROVE  (IsOwn(turn[q], q) /\ UnderWay(turn[q], q))'
    <3>1. CASE pending = turn[q] /\ pending \notin missed'
      <4>1. pendingPhone = q /\ linked
        BY <1>0, <1>10, <2>2, <2>5, <3>1 DEF OnStreamDone, OnApiError, OnFinished, Closes, Awaited, Taken, IsOwn
      <4>2. In(Message(t, pending, running), toPhone'[q]) /\ t \in Closing
        BY <2>1, <2>3, <4>1
      <4> QED BY <1>0, <1>1, <2>2, <2>4, <2>5, <3>1, <4>2 DEF Awaited, UnderWay, Ending
    <3>2. CASE pending # turn[q] \/ pending \in missed'
      BY <1>0, <1>1, <2>2, <2>3, <2>5, <3>2 DEF Awaited, UnderWay, Asked, Ending
    <3> QED BY <3>1, <3>2
  <2> QED BY <2>5 DEF Awaited
<1>11. CASE OnDelta
  BY <1>0, <1>2, <1>11, Sending DEF OnDelta, screens, manager, Types
<1>12. CASE \/ Link \/ OwnTurn \/ Stop \/ Delta \/ RoundDone \/ TurnOver \/ UNCHANGED chatVars
            \/ \E p \in Phones : Watchdog(p) \/ Unavailable(p) \/ Retry(p)
  <2>1. toDesktop' = toDesktop /\ toPhone' = toPhone /\ pending' = pending
        /\ \A q \in Phones : turn'[q] \in {turn[q], 0}
    BY <1>0, <1>12 DEF Link, OwnTurn, Stop, Delta, RoundDone, TurnOver, chatVars, Watchdog,
       Unavailable, Retry, links, screens, manager
  <2> QED BY <1>2, <2>1
<1> QED BY <1>4, <1>l, <1>o, <1>5, <1>6, <1>7, <1>8, <1>9, <1>10, <1>11, <1>12 DEF ChatNext

-----------------------------------------------------------------------------
\* At the start.
LEMMA ChatBegins == ChatsAssumed /\ ChatInit => ChatInv
<1> SUFFICES ASSUME ChatsAssumed, ChatInit PROVE ChatInv
  OBVIOUS
<1>1. /\ \A p \in Phones : toDesktop[p] = <<>> /\ toPhone[p] = <<>> /\ turn[p] = 0
      /\ pending = 0 /\ handled = {} /\ running = 0 /\ gui = <<>> /\ ~working
      /\ \A c \in Chats : ended[c] = 0
  BY DEF ChatInit
<1>2. ChatTypeOK
  <2>1. 0 \in 0 .. MaxChats /\ 0 \in 0 .. MaxRounds /\ 0 \in 0 .. MaxFaults /\ MaxChats \in Nat /\ <<>> \in Seq(Phones)
        /\ <<>> \in Seq(Signals) /\ Len(<<>>) = 0
    BY DEF ChatsAssumed
  <2>2. /\ toDesktop \in [Phones -> Seq(Messages)] /\ toPhone \in [Phones -> Seq(Messages)]
        /\ turn \in [Phones -> 0 .. MaxChats] /\ cleared \in [Phones -> BOOLEAN]
        /\ verified \in [Phones -> BOOLEAN]
    BY <2>1, NothingIn DEF ChatInit
  <2>3. /\ ended \in [Chats -> Nat] /\ handled \subseteq Chats
        /\ missed \subseteq Chats /\ early \subseteq Chats
    BY DEF ChatInit
  <2>4. sent \in Seq(Phones) /\ Len(sent) <= MaxChats /\ gui \in Seq(Signals)
    BY <2>1 DEF ChatInit
  <2> QED BY <2>1, <2>2, <2>3, <2>4 DEF ChatsAssumed, ChatInit, ChatTypeOK
<1>3. EndsOnce /\ PendingRuns
  BY DEF ChatInit, EndsOnce, PendingRuns
<1> QED BY <1>1, <1>2, <1>3, NothingIn DEF ChatInv, Coming, Going, Taken, Thread, Awaited

\* Every step keeps ChatInv.
LEMMA ChatInductive == ChatInv /\ [ChatNext]_chatVars => ChatInv'
<1> SUFFICES ASSUME ChatInv, [ChatNext]_chatVars PROVE ChatInv'
  OBVIOUS
<1>1. ChatTypeOK /\ ChatsAssumed'
  BY DEF ChatInv, ChatsAssumed
<1> QED BY <1>1, ChatTypeStep, ThreadStep, TakenStep, ComingStep, GoingStep, AwaitedStep, Grows DEF ChatInv

\* ChatInv holds throughout.
LEMMA ChatInvariance == ChatSpec => []ChatInv
<1>1. ChatsAssumed
  BY NoPhoneAssumption, ChatsAssumption DEF ChatsAssumed
<1>2. ChatInit => ChatInv
  BY <1>1, ChatBegins
<1> QED BY <1>2, ChatInductive, PTL DEF ChatSpec

\* What it says of the chats and the screens.
LEMMA AnsweredImplied == ChatInv => Answered
<1> SUFFICES ASSUME ChatInv PROVE Answered
  OBVIOUS
<1>0. /\ ChatTypeOK /\ EndsOnce /\ PendingRuns /\ Going /\ Awaited
      /\ \A p \in Phones : toDesktop[p] \in Seq(Messages) /\ toPhone[p] \in Seq(Messages)
  BY DEF ChatInv, ChatTypeOK
<1>1. ASSUME NEW p \in Phones
      PROVE  /\ DOMAIN toDesktop[p] = 1 .. Len(toDesktop[p])
             /\ DOMAIN toPhone[p] = 1 .. Len(toPhone[p])
  <2>1. toDesktop[p] \in Seq(Messages) /\ toPhone[p] \in Seq(Messages)
    BY <1>0
  <2> QED BY <2>1
<1>2. ToAsker
  <2>1. ASSUME NEW p \in Phones, NEW i \in 1 .. Len(toPhone[p])
        PROVE  IsOwn(toPhone[p][i].c, p) /\ toPhone[p][i].by = toPhone[p][i].c
    <3>1. toPhone[p][i] \in Messages /\ In(toPhone[p][i], toPhone[p])
      BY <1>0 DEF In
    <3> QED BY <1>0, <3>1 DEF Going
  <2> QED BY <1>1, <2>1 DEF ToAsker, IsOwn
<1>3. ScreenComesBack
  <2>1. ASSUME NEW p \in Phones, turn[p] # 0, turn[p] \notin missed
        PROVE  \/ pending = turn[p]
               \/ turn[p] \in ChatsOf(toDesktop[p], {"send"}) \union ChatsOf(toPhone[p], Closing)
    <3>1. pending = turn[p] \/ Asked(turn[p], p) \/ Ending(turn[p], p)
      BY <1>0, <2>1 DEF Awaited, UnderWay
    <3>2. Asked(turn[p], p) => turn[p] \in ChatsOf(toDesktop[p], {"send"})
      BY <1>0, Listed DEF Asked
    <3>3. Ending(turn[p], p) => turn[p] \in ChatsOf(toPhone[p], Closing)
      BY <1>0, Listed DEF Ending
    <3> QED BY <3>1, <3>2, <3>3
  <2> QED BY <2>1 DEF ScreenComesBack
<1> QED BY <1>0, <1>2, <1>3 DEF Answered

(* The chat that is pending and its phone are noted and forgotten         *)
(* together, however the manager's handlers and the signals of turns      *)
(* interleave (ChatTypeOK).                                      *)
THEOREM ChatTypeCorrect == ChatSpec => []ChatTypeOK
<1>1. ChatInv => ChatTypeOK
  BY DEF ChatInv
<1> QED BY <1>1, ChatInvariance, PTL

(* Every message the desktop took from a phone is closed for that phone,  *)
(* once, or its turn still runs; a phone hears of its own turns only; and *)
(* a screen never waits for what cannot come (Answered).     *)
THEOREM EveryChatAnswered == ChatSpec => []Answered
BY ChatInvariance, AnsweredImplied, PTL
=============================================================================
