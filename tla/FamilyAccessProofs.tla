------------------------- MODULE FamilyAccessProofs -------------------------
(* Proofs about FamilyAccess, for any families, principals, Places, tokens *)
(* and handlers.                                                           *)
EXTENDS FamilyAccess, TLAPS

\* A principal with a token is enrolled, and the token was minted for it.
Minted ==
  \A p \in Principals : token[p] # Nobody => owner[token[p]] = p /\ family[p] # Nobody

\* A removed Place has no row.
GoneIsGone == \A g \in gone : place[g] = Nobody

\* A crossing is of a Place of the device's own family, and the Place is there.
CrossingsAtHome ==
  \A c \in crossings : family[c[1]] # Nobody /\ place[c[2]] = family[c[1]]

\* A stored fix came with a token that was minted for its device.
FixesOwned == \A f \in fixes : owner[f[2]] = f[1]

\* No row holds the token, or the row has expired.
Dead(t) == \A p \in Principals : token[p] # t \/ expires[p] <= now

\* What is known of a request whatever has become of its token since: who it
\* was admitted as is who the token was minted for, in the table of its route.
Credential(r) ==
  /\ req[r].pc \in {"presented", "lookup", "admitted"} =>
       /\ req[r].token \in Tokens /\ owner[req[r].token] # Nobody
       /\ req[r].status = 0 /\ req[r].data = {}
  /\ req[r].pc \in {"lookup", "admitted"} =>
       /\ req[r].who \in Table(req[r].route) /\ owner[req[r].token] = req[r].who
       /\ family[req[r].who] # Nobody /\ ~req[r].late
  /\ req[r].pc = "idle" => req[r].status = 0 /\ req[r].data = {} /\ ~req[r].late
  /\ req[r].status \in {200, 400, 403, 404} =>
       /\ req[r].token \in Tokens /\ owner[req[r].token] \in Table(req[r].route)
       /\ family[owner[req[r].token]] # Nobody /\ ~req[r].late
  /\ req[r].data # {} => req[r].status = 200
  /\ req[r].route = "history" => req[r].arg \in Devices

\* A request that came too late carries a token that no lookup can match.
LateIsDead(r) ==
  req[r].late /\ req[r].token # Nobody => owner[req[r].token] # Nobody /\ Dead(req[r].token)

\* What an answer shows is of the family that asked, or removed since.
Shown(r) == \A x \in req[r].data : FamilyOf(x) = family[owner[req[r].token]] \/ x \in gone

RequestSound(r) == Credential(r) /\ LateIsDead(r) /\ Shown(r)

\* What is known of the tables.
TablesSound == Minted /\ GoneIsGone /\ CrossingsAtHome /\ FixesOwned

\* The inductive invariant.
AccessIInv == AccessTypeOK /\ TablesSound /\ \A r \in Requests : RequestSound(r)

\* What no step takes back: a token's owner, a principal's family, a Place's
\* family unless it is removed, a removal, and that a token is dead.
TablesKept ==
  /\ \A t \in Tokens : owner[t] # Nobody => owner'[t] = owner[t]
  /\ \A p \in Principals : family[p] # Nobody => family'[p] = family[p]
  /\ \A g \in Places : place[g] # Nobody => place'[g] = place[g] \/ g \in gone'
  /\ gone \subseteq gone'
  /\ \A t \in Tokens : owner[t] # Nobody /\ Dead(t) => Dead(t)'

\* Nothing has been enrolled, removed or asked at the start.
LEMMA AccessInitIInv == AccessInit => AccessIInv
<1> SUFFICES ASSUME AccessInit PROVE AccessIInv
  OBVIOUS
<1> USE AccessAssumption DEF AccessInit
<1>1. AccessTypeOK
  BY DEF AccessTypeOK, NoRequest, Forever, Routes, ReadRoutes, WriteRoutes
<1>2. TablesSound
  BY DEF TablesSound, Minted, GoneIsGone, CrossingsAtHome, FixesOwned
<1>3. \A r \in Requests : RequestSound(r)
  BY DEF RequestSound, Credential, LateIsDead, Shown, NoRequest
<1> QED
  BY <1>1, <1>2, <1>3 DEF AccessIInv

\* A request that a step leaves alone stays sound while the tables are kept.
LEMMA RequestKept ==
  ASSUME AccessIInv, TablesKept, NEW r \in Requests, req'[r] = req[r]
  PROVE  RequestSound(r)'
<1> DEFINE t == req[r].token
<1>1. /\ t \in Tokens \cup {Nobody} /\ owner \in [Tokens -> Principals \cup {Nobody}]
      /\ req[r].who \in Principals \cup {Nobody} /\ req[r].data \subseteq Devices \cup Places
      /\ Nobody \notin Tokens /\ Nobody \notin Principals
      /\ \A route : Table(route) \subseteq Principals
  BY AccessAssumption DEF AccessIInv, AccessTypeOK, Table, Principals
<1>2. RequestSound(r)
  BY DEF AccessIInv
<1>3. Credential(r)'
  BY <1>1, <1>2 DEF RequestSound, Credential, TablesKept, Table
<1>4. LateIsDead(r)'
  BY <1>1, <1>2 DEF RequestSound, LateIsDead, TablesKept
<1>5. Shown(r)'
  <2> SUFFICES ASSUME NEW x \in req[r].data
               PROVE  (FamilyOf(x) = family[owner[t]])' \/ x \in gone'
    BY DEF Shown
  <2>1. t \in Tokens /\ owner[t] \in Principals /\ family[owner[t]] # Nobody
    BY <1>1, <1>2 DEF RequestSound, Credential
  <2>2. t' = t /\ owner'[t] = owner[t] /\ family'[owner[t]] = family[owner[t]]
    BY <1>1, <2>1 DEF TablesKept
  <2>3. FamilyOf(x) = family[owner[t]] \/ x \in gone
    BY <1>2 DEF RequestSound, Shown
  <2>4. CASE x \in Places
    BY <2>1, <2>2, <2>3, <2>4 DEF FamilyOf, TablesKept
  <2>5. CASE x \notin Places
    <3>1. x \in Principals
      BY <1>1, <2>5 DEF Principals
    <3> QED
      BY <2>1, <2>2, <2>3, <2>5, <3>1 DEF FamilyOf, TablesKept
  <2> QED
    BY <2>4, <2>5
<1> QED
  BY <1>3, <1>4, <1>5 DEF RequestSound

\* A command or the clock, which leave every request alone.
LEMMA CommandKeeps ==
  ASSUME AccessIInv, TablesKept, req' = req, AccessTypeOK', TablesSound'
  PROVE  AccessIInv'
BY RequestKept DEF AccessIInv

-----------------------------------------------------------------------------
(* The operator's commands and the clock.                                  *)

\* runCreateFamily adds a row nothing refers to yet.
LEMMA FamilyStep ==
  ASSUME AccessIInv, NEW f \in Families, runCreateFamily(f)
  PROVE  AccessIInv'
<1> USE DEF runCreateFamily, CommandUnchanged
<1>1. AccessTypeOK'
  BY DEF AccessIInv, AccessTypeOK
<1>2. TablesSound'
  BY DEF AccessIInv, TablesSound, Minted, GoneIsGone, CrossingsAtHome, FixesOwned
<1>3. TablesKept
  BY DEF TablesKept, Dead
<1> QED
  BY <1>1, <1>2, <1>3, CommandKeeps

\* A token that is minted was nobody's: no row held it, no request carried it.
LEMMA MintKeeps ==
  ASSUME AccessIInv, NEW p \in Principals, NEW t \in Tokens, Mint(p, t),
         \A s \in Principals \ {p} : expires'[s] = expires[s],
         \A s \in Principals : family[s] # Nobody => family'[s] = family[s],
         family'[p] # Nobody, family' \in [Principals -> families \cup {Nobody}],
         expires' \in [Principals -> Nat],
         UNCHANGED <<families, place, gone, crossings, now, fixes, req>>
  PROVE  AccessIInv'
<1> USE AccessAssumption
<1>1. /\ owner \in [Tokens -> Principals \cup {Nobody}] /\ token \in [Principals -> Tokens \cup {Nobody}]
      /\ owner'[t] = p /\ token'[p] = t
      /\ \A s \in Tokens \ {t} : owner'[s] = owner[s]
      /\ \A s \in Principals \ {p} : token'[s] = token[s]
      /\ owner[t] = Nobody
      /\ owner' \in [Tokens -> Principals \cup {Nobody}] /\ token' \in [Principals -> Tokens \cup {Nobody}]
      /\ p # Nobody
  BY DEF AccessIInv, AccessTypeOK, Mint
<1>2. AccessTypeOK'
  BY <1>1 DEF AccessIInv, AccessTypeOK
<1>3. Minted'
  BY <1>1 DEF AccessIInv, TablesSound, Minted
<1>4. CrossingsAtHome'
  BY DEF AccessIInv, AccessTypeOK, TablesSound, CrossingsAtHome, Principals
<1>5. FixesOwned'
  BY <1>1 DEF AccessIInv, AccessTypeOK, TablesSound, FixesOwned, Principals
<1>6. GoneIsGone'
  BY DEF AccessIInv, TablesSound, GoneIsGone
<1>7. TablesKept
  BY <1>1 DEF TablesKept, Dead
<1> QED
  BY <1>2, <1>3, <1>4, <1>5, <1>6, <1>7, CommandKeeps DEF TablesSound

\* runEnroll and runAddViewer give a principal its family, once, and its first token.
LEMMA EnrollStep ==
  ASSUME AccessIInv, NEW p \in Principals, NEW f \in Families, NEW t \in Tokens, Enroll(p, f, t)
  PROVE  AccessIInv'
<1>1. /\ family' \in [Principals -> families \cup {Nobody}] /\ family'[p] # Nobody
      /\ \A s \in Principals : family[s] # Nobody => family'[s] = family[s]
  BY AccessAssumption DEF AccessIInv, AccessTypeOK, Enroll, CreatePrincipal
<1> QED
  BY <1>1, MintKeeps DEF AccessIInv, AccessTypeOK, Enroll, CommandUnchanged

\* The rotations give a principal a new token and a new expiry, at once.
LEMMA RotateStep ==
  ASSUME AccessIInv, NEW p \in Principals, NEW t \in Tokens, NEW ttl \in TTLs, RotateToken(p, t, ttl)
  PROVE  AccessIInv'
<1>1. expiryFromTTL(ttl) \in Nat
  BY AccessAssumption DEF AccessIInv, AccessTypeOK, expiryFromTTL, Forever
<1>2. /\ expires' \in [Principals -> Nat]
      /\ \A s \in Principals \ {p} : expires'[s] = expires[s]
  BY <1>1 DEF AccessIInv, AccessTypeOK, RotateToken, UpdateTokenHash
<1> QED
  BY <1>2, MintKeeps DEF AccessIInv, AccessTypeOK, RotateToken, UpdateTokenHash, CommandUnchanged

\* runAddPlace gives a Place that never was its family.
LEMMA AddPlaceStep ==
  ASSUME AccessIInv, NEW g \in Places, NEW f \in Families, runAddPlace(g, f)
  PROVE  AccessIInv'
<1> USE DEF runAddPlace, CreateGeofence, CommandUnchanged
<1>1. AccessTypeOK'
  BY DEF AccessIInv, AccessTypeOK
<1>2. TablesSound'
  BY DEF AccessIInv, AccessTypeOK, TablesSound, Minted, GoneIsGone, CrossingsAtHome, FixesOwned
<1>3. TablesKept
  BY DEF AccessIInv, AccessTypeOK, TablesKept, Dead
<1> QED
  BY <1>1, <1>2, <1>3, CommandKeeps

\* runRemovePlace takes the crossings of the Place with it.
LEMMA RemovePlaceStep ==
  ASSUME AccessIInv, NEW g \in Places, NEW f \in Families, runRemovePlace(g, f)
  PROVE  AccessIInv'
<1> USE DEF runRemovePlace, DeleteGeofence, CommandUnchanged
<1>1. AccessTypeOK'
  BY DEF AccessIInv, AccessTypeOK
<1>2. TablesSound'
  BY DEF AccessIInv, AccessTypeOK, TablesSound, Minted, GoneIsGone, CrossingsAtHome, FixesOwned
<1>3. TablesKept
  BY DEF AccessIInv, AccessTypeOK, TablesKept, Dead
<1> QED
  BY <1>1, <1>2, <1>3, CommandKeeps

\* Time only makes tokens expire.
LEMMA TickStep ==
  ASSUME AccessIInv, AccessTick
  PROVE  AccessIInv'
<1> USE DEF AccessTick
<1>1. AccessTypeOK'
  BY AccessAssumption DEF AccessIInv, AccessTypeOK
<1>2. TablesSound'
  BY DEF AccessIInv, TablesSound, Minted, GoneIsGone, CrossingsAtHome, FixesOwned
<1>3. TablesKept
  BY DEF AccessIInv, AccessTypeOK, TablesKept, Dead
<1> QED
  BY <1>1, <1>2, <1>3, CommandKeeps

-----------------------------------------------------------------------------
(* Requests.                                                               *)

Request == [pc : {"idle", "presented", "lookup", "admitted", "answered"},
            route : Routes, token : Tokens \cup {Nobody}, arg : Devices \cup {Nobody},
            who : Principals \cup {Nobody}, status : {0, 200, 400, 401, 403, 404, 500},
            data : SUBSET (Devices \cup Places), late : BOOLEAN]

\* A request that is let in is one.
LEMMA AdmittedTyped ==
  ASSUME NEW q \in Request, NEW p \in Principals, NEW pc \in {"lookup", "admitted"}
  PROVE  [q EXCEPT !.who = p, !.pc = pc] \in Request
<1> DEFINE q1 == [q EXCEPT !.who = p]
           q2 == [q1 EXCEPT !.pc = pc]
<1>1. q1 \in Request
  BY DEF Request
<1> HIDE DEF q1
<1>2. q2 \in Request
  BY <1>1 DEF Request
<1> QED
  BY <1>2 DEF q1

\* What Answer leaves of a request.
LEMMA AnswerIs ==
  ASSUME req \in [Requests -> Request], NEW r \in Requests,
         NEW status \in {200, 400, 401, 403, 404, 500}, NEW data \in SUBSET (Devices \cup Places),
         Answer(r, status, data)
  PROVE  /\ req' \in [Requests -> Request]
         /\ \A s \in Requests \ {r} : req'[s] = req[s]
         /\ req'[r].pc = "answered" /\ req'[r].status = status /\ req'[r].data = data
         /\ req'[r].route = req[r].route /\ req'[r].token = req[r].token /\ req'[r].arg = req[r].arg
         /\ req'[r].late = req[r].late
<1>1. req[r] \in Request
  OBVIOUS
<1>2. req'[r] = [req[r] EXCEPT !.pc = "answered", !.status = status, !.data = data]
  BY <1>1 DEF Answer
<1> DEFINE q1 == [req[r] EXCEPT !.pc = "answered"]
           q2 == [q1 EXCEPT !.status = status]
           q3 == [q2 EXCEPT !.data = data]
<1>3. q1 \in Request
  BY <1>1 DEF Request
<1> HIDE DEF q1
<1>4. q2 \in Request
  BY <1>3 DEF Request
<1> HIDE DEF q2
<1>5. q3 \in Request
  BY <1>4 DEF Request
<1>6. req'[r] \in Request
  BY <1>2, <1>5 DEF q1, q2
<1>7. \A s \in Requests \ {r} : req'[s] = req[s]
  BY DEF Answer
<1>8. req' \in [Requests -> Request]
  BY <1>6, <1>7 DEF Answer
<1>9. /\ req'[r].pc = "answered" /\ req'[r].status = status /\ req'[r].data = data
      /\ req'[r].route = req[r].route /\ req'[r].token = req[r].token /\ req'[r].arg = req[r].arg
      /\ req'[r].late = req[r].late
  BY <1>1, <1>2 DEF Request
<1> QED
  BY <1>7, <1>8, <1>9

\* A step of one request that writes no fix: it is enough to look at the request.
LEMMA ReadOnlyKeeps ==
  ASSUME AccessIInv, ReadOnly, NEW r \in Requests, req' \in [Requests -> Request],
         \A s \in Requests \ {r} : req'[s] = req[s], RequestSound(r)'
  PROVE  AccessIInv'
<1> USE DEF ReadOnly, TablesUnchanged
<1>1. AccessTypeOK'
  BY DEF AccessIInv, AccessTypeOK, Request
<1>2. TablesSound'
  BY DEF AccessIInv, TablesSound, Minted, GoneIsGone, CrossingsAtHome, FixesOwned
<1>3. TablesKept
  BY DEF TablesKept, Dead
<1>4. \A s \in Requests \ {r} : RequestSound(s)'
  BY <1>3, RequestKept
<1> QED
  BY <1>1, <1>2, <1>4 DEF AccessIInv

\* The type invariant's part about requests.
LEMMA RequestsTyped == AccessIInv => req \in [Requests -> Request]
BY DEF AccessIInv, AccessTypeOK, Request

\* A request that is answered without data, and with nothing learnt of the
\* tables, is sound.
LEMMA RefusalKeeps ==
  ASSUME AccessIInv, ReadOnly, NEW r \in Requests, NEW status \in {401, 500},
         req[r].pc \in {"presented", "lookup", "admitted"}, Answer(r, status, {})
  PROVE  AccessIInv'
<1>1. /\ req' \in [Requests -> Request]
      /\ \A s \in Requests \ {r} : req'[s] = req[s]
      /\ req'[r].pc = "answered" /\ req'[r].status = status /\ req'[r].data = {}
      /\ req'[r].route = req[r].route /\ req'[r].token = req[r].token /\ req'[r].arg = req[r].arg
      /\ req'[r].late = req[r].late
  BY RequestsTyped, AnswerIs
<1>2. RequestSound(r)
  BY DEF AccessIInv
<1>3. RequestSound(r)'
  BY <1>1, <1>2
  DEF RequestSound, Credential, LateIsDead, Shown, Dead, ReadOnly, TablesUnchanged
<1> QED
  BY <1>1, <1>3, ReadOnlyKeeps

\* So is one that was let in and is shown what is of its family.
LEMMA AnswerSound ==
  ASSUME AccessIInv, TablesUnchanged, NEW r \in Requests, NEW status \in {200, 400, 403, 404},
         NEW data \in SUBSET (Devices \cup Places),
         req[r].pc \in {"lookup", "admitted"}, Answer(r, status, data),
         data # {} => status = 200,
         \A x \in data : FamilyOf(x) = Own(r)
  PROVE  RequestSound(r)'
<1>1. /\ req'[r].pc = "answered" /\ req'[r].status = status /\ req'[r].data = data
      /\ req'[r].route = req[r].route /\ req'[r].token = req[r].token /\ req'[r].arg = req[r].arg
      /\ req'[r].late = req[r].late
  BY RequestsTyped, AnswerIs
<1>2. /\ Credential(r)
      /\ UNCHANGED <<owner, family, place, gone, token, expires, now>>
  BY DEF AccessIInv, RequestSound, TablesUnchanged
<1>3. Credential(r)'
  BY <1>1, <1>2 DEF Credential, Table
<1>4. LateIsDead(r)'
  BY <1>1, <1>2 DEF Credential, LateIsDead
<1>5. Shown(r)'
  BY <1>1, <1>2 DEF Credential, Shown, FamilyOf, Own
<1> QED
  BY <1>3, <1>4, <1>5 DEF RequestSound

\* The same, of the whole state.
LEMMA AnswerKeeps ==
  ASSUME AccessIInv, ReadOnly, NEW r \in Requests, NEW status \in {200, 400, 403, 404},
         NEW data \in SUBSET (Devices \cup Places),
         req[r].pc \in {"lookup", "admitted"}, Answer(r, status, data),
         data # {} => status = 200,
         \A x \in data : FamilyOf(x) = Own(r)
  PROVE  AccessIInv'
<1>1. TablesUnchanged
  BY DEF ReadOnly
<1>2. RequestSound(r)'
  BY <1>1, AnswerSound
<1>3. req' \in [Requests -> Request] /\ \A s \in Requests \ {r} : req'[s] = req[s]
  BY RequestsTyped, AnswerIs
<1> QED
  BY <1>2, <1>3, ReadOnlyKeeps

\* A request that comes in is sound, its token alive or dead.
LEMMA PresentStep ==
  ASSUME AccessIInv, NEW r \in Requests, Present(r)
  PROVE  AccessIInv'
<1> USE AccessAssumption
<1>1. PICK route \in Routes, t \in Tokens \cup {Nobody}, arg \in Devices \cup {Nobody} :
        /\ t # Nobody => owner[t] # Nobody
        /\ (arg # Nobody) <=> (route = "history")
        /\ LET sent == [NoRequest EXCEPT !.route = route, !.token = t, !.arg = arg,
                                         !.late = \A p \in Principals : token[p] # t \/ expires[p] <= now] IN
           req' = [req EXCEPT ![r] = IF t = Nobody
                                     THEN [sent EXCEPT !.pc = "answered", !.status = 401]
                                     ELSE [sent EXCEPT !.pc = "presented"]]
  BY DEF Present
<1> DEFINE sent == [NoRequest EXCEPT !.route = route, !.token = t, !.arg = arg, !.late = Dead(t)]
           q    == IF t = Nobody THEN [sent EXCEPT !.pc = "answered", !.status = 401]
                                 ELSE [sent EXCEPT !.pc = "presented"]
<1>2. req' = [req EXCEPT ![r] = q]
  BY <1>1 DEF Dead
<1>3. /\ q.token = t /\ q.late = Dead(t) /\ q.data = {} /\ q.route = route /\ q.arg = arg
      /\ t = Nobody => q.pc = "answered" /\ q.status = 401
      /\ t # Nobody => q.pc = "presented" /\ q.status = 0
  BY DEF NoRequest
<1>4. q \in Request
  <2>1. Dead(t) \in BOOLEAN
    BY DEF Dead
  <2> DEFINE s1 == [NoRequest EXCEPT !.route = route]
             s2 == [s1 EXCEPT !.token = t]
             s3 == [s2 EXCEPT !.arg = arg]
             s4 == [s3 EXCEPT !.late = Dead(t)]
             s5 == [s4 EXCEPT !.pc = "answered"]
  <2>2. s1 \in Request
    BY DEF Request, NoRequest
  <2> HIDE DEF s1
  <2>3. s2 \in Request
    BY <2>2 DEF Request
  <2> HIDE DEF s2
  <2>4. s3 \in Request
    BY <2>3 DEF Request
  <2> HIDE DEF s3
  <2>5. s4 \in Request
    BY <2>1, <2>4 DEF Request
  <2> HIDE DEF s4
  <2>6. s5 \in Request /\ [s4 EXCEPT !.pc = "presented"] \in Request
    BY <2>5 DEF Request
  <2> HIDE DEF s5
  <2>7. [s5 EXCEPT !.status = 401] \in Request
    BY <2>6 DEF Request
  <2> QED
    BY <2>6, <2>7 DEF s1, s2, s3, s4, s5
<1>5. /\ req'[r] = q /\ req' \in [Requests -> Request]
      /\ \A s \in Requests \ {r} : req'[s] = req[s]
  BY <1>2, <1>4, RequestsTyped
<1> HIDE DEF q
<1>6. ReadOnly
  BY DEF Present, ReadOnly
<1>7. UNCHANGED <<owner, family, token, expires, now>>
  BY <1>6 DEF ReadOnly, TablesUnchanged
<1>8. /\ t # Nobody => t \in Tokens /\ owner[t] # Nobody
      /\ route = "history" => arg \in Devices
  BY <1>1
<1>9. Credential(r)'
  BY <1>3, <1>5, <1>7, <1>8 DEF Credential
<1>10. LateIsDead(r)'
  BY <1>3, <1>5, <1>7, <1>8 DEF LateIsDead, Dead
<1>11. Shown(r)'
  BY <1>3, <1>5 DEF Shown
<1> QED
  BY <1>5, <1>6, <1>9, <1>10, <1>11, ReadOnlyKeeps DEF RequestSound

\* The lookup finds the owner of the token or nobody; of a dead token, nobody.
LEMMA AuthenticateStep ==
  ASSUME AccessIInv, NEW r \in Requests, Authenticate(r)
  PROVE  AccessIInv'
<1> USE AccessAssumption
<1>1. ReadOnly /\ req[r].pc = "presented"
  BY DEF Authenticate, ReadOnly
<1>2. CASE Answer(r, 401, {})
  BY <1>1, <1>2, RefusalKeeps
<1>3. ASSUME NEW p \in Table(req[r].route), Live(p, req[r].token),
             req' = [req EXCEPT ![r].who = p,
                                ![r].pc = IF req[r].route = "history" THEN "lookup" ELSE "admitted"]
      PROVE  AccessIInv'
  <2> DEFINE next == IF req[r].route = "history" THEN "lookup" ELSE "admitted"
  <2>1. req \in [Requests -> Request] /\ req[r] \in Request
    BY RequestsTyped
  <2>2. p \in Principals
    BY DEF Table, Principals
  <2>3. req'[r] = [req[r] EXCEPT !.who = p, !.pc = next]
    BY <1>3, <2>1
  <2>4. next \in {"lookup", "admitted"}
    OBVIOUS
  <2> HIDE DEF next
  <2>5. [req[r] EXCEPT !.who = p, !.pc = next] \in Request
    BY <2>1, <2>2, <2>4, AdmittedTyped, Zenon
  <2>6. req'[r] \in Request
    BY <2>3, <2>5, Zenon
  <2>7. \A s \in Requests \ {r} : req'[s] = req[s]
    BY <1>3, <2>1
  <2>8. req' \in [Requests -> Request]
    BY <1>3, <2>1, <2>6, <2>7
  <2>9. /\ req'[r].pc \in {"lookup", "admitted"} /\ req'[r].who = p
        /\ req'[r].route = req[r].route /\ req'[r].token = req[r].token /\ req'[r].arg = req[r].arg
        /\ req'[r].late = req[r].late /\ req'[r].status = req[r].status /\ req'[r].data = req[r].data
    BY <2>1, <2>3, <2>4 DEF Request
  <2>10. Credential(r) /\ LateIsDead(r)
    BY DEF AccessIInv, RequestSound
  <2>11. req[r].token \in Tokens /\ req[r].status = 0 /\ req[r].data = {}
    BY <1>1, <2>10 DEF Credential
  <2>12. owner[req[r].token] = p /\ family[p] # Nobody
    BY <1>3, <2>2, <2>11 DEF AccessIInv, TablesSound, Minted, Live
  <2>13. ~req[r].late
    <3>1. expires[p] \in Nat /\ now \in Nat
      BY <2>2 DEF AccessIInv, AccessTypeOK
    <3>2. ~Dead(req[r].token)
      BY <1>3, <2>2, <3>1 DEF Dead, Live
    <3> QED
      BY <2>10, <2>11, <3>2 DEF LateIsDead
  <2>14. UNCHANGED <<owner, family, token, expires, now>>
    BY <1>1 DEF ReadOnly, TablesUnchanged
  <2>15. p # Nobody /\ p \in Table(req[r].route)
    BY <1>3, <2>2
  <2>16. Credential(r)'
    BY <2>9, <2>10, <2>11, <2>12, <2>13, <2>14, <2>15 DEF Credential, Table
  <2>17. LateIsDead(r)' /\ Shown(r)'
    BY <2>9, <2>11, <2>13 DEF LateIsDead, Shown
  <2> QED
    BY <1>1, <2>7, <2>8, <2>16, <2>17, ReadOnlyKeeps DEF RequestSound
<1> QED
  BY <1>2, <1>3 DEF Authenticate

\* The lookup of the device changes nothing but where the request is.
LEMMA LookupStep ==
  ASSUME AccessIInv, NEW r \in Requests, LookupDevice(r)
  PROVE  AccessIInv'
<1>1. ReadOnly /\ req[r].pc = "lookup"
  BY DEF LookupDevice, ReadOnly
<1>2. CASE Answer(r, 404, {}) \/ Answer(r, 403, {})
  BY <1>1, <1>2, AnswerKeeps
<1>3. CASE req' = [req EXCEPT ![r].pc = "admitted"]
  <2>1. req \in [Requests -> Request] /\ req[r] \in Request
    BY RequestsTyped
  <2>2. req'[r] = [req[r] EXCEPT !.pc = "admitted"]
    BY <1>3, <2>1
  <2>3. req'[r] \in Request
    BY <2>1, <2>2 DEF Request
  <2>4. \A s \in Requests \ {r} : req'[s] = req[s]
    BY <1>3
  <2>5. req' \in [Requests -> Request]
    BY <1>3, <2>1, <2>3, <2>4
  <2>6. /\ req'[r].pc = "admitted" /\ req'[r].who = req[r].who
        /\ req'[r].route = req[r].route /\ req'[r].token = req[r].token /\ req'[r].arg = req[r].arg
        /\ req'[r].late = req[r].late /\ req'[r].status = req[r].status /\ req'[r].data = req[r].data
    BY <2>1, <2>2 DEF Request
  <2>7. RequestSound(r)'
    BY <1>1, <2>6
    DEF AccessIInv, RequestSound, Credential, LateIsDead, Shown, Dead, Table, FamilyOf, ReadOnly, TablesUnchanged
  <2> QED
    BY <1>1, <2>4, <2>5, <2>7, ReadOnlyKeeps
<1> QED
  BY <1>2, <1>3 DEF LookupDevice
\* Every read is scoped by the family of who was let in.
LEMMA ReadStep ==
  ASSUME AccessIInv, NEW r \in Requests,
         getPositions(r) \/ getDeviceHistory(r) \/ getNear(r) \/ getPlaces(r) \/ getGeofenceEvents(r)
  PROVE  AccessIInv'
<1> USE AccessAssumption
<1>1. ReadOnly /\ req[r].pc = "admitted"
  BY DEF getPositions, getDeviceHistory, getNear, getPlaces, getGeofenceEvents, Serving
<1>2. Located \subseteq Devices /\ \A d \in Devices : FamilyOf(d) = family[d]
  BY DEF AccessIInv, AccessTypeOK, Located, FamilyOf, Principals
<1>3. SUFFICES ASSUME NEW data \in SUBSET (Devices \cup Places), Answer(r, 200, data),
                      \A x \in data : FamilyOf(x) = Own(r)
               PROVE  AccessIInv'
  <2>1. CASE getPositions(r)
    BY <1>2, <1>3, <2>1 DEF getPositions, DeviceStates
  <2>2. CASE getDeviceHistory(r)
    BY <1>2, <1>3, <2>2 DEF getDeviceHistory
  <2>3. CASE getNear(r)
    BY <1>2, <1>3, <2>3 DEF getNear, FixesNear
  <2>4. CASE getPlaces(r)
    BY <1>3, <2>4 DEF getPlaces, ListGeofences, FamilyOf
  <2>5. CASE getGeofenceEvents(r)
    <3> DEFINE rows == ListGeofenceEvents(Own(r))
               data == {c[1] : c \in rows} \cup {c[2] : c \in rows}
    <3>1. \A c \in rows : /\ c[1] \in Devices /\ c[2] \in Places
                          /\ family[c[1]] = Own(r) /\ place[c[2]] = Own(r)
      BY DEF AccessIInv, AccessTypeOK, TablesSound, CrossingsAtHome, ListGeofenceEvents
    <3>2. data \in SUBSET (Devices \cup Places) /\ \A x \in data : FamilyOf(x) = Own(r)
      BY <1>2, <3>1 DEF FamilyOf
    <3>3. Answer(r, 200, data)
      BY <2>5 DEF getGeofenceEvents
    <3> QED
      BY <1>3, <3>2, <3>3
  <2> QED
    BY <2>1, <2>2, <2>3, <2>4, <2>5
<1> QED
  BY <1>1, <1>3, AnswerKeeps

\* A refusal or a failure shows nothing.
LEMMA RefuseStep ==
  ASSUME AccessIInv, NEW r \in Requests, RefuseOrFail(r)
  PROVE  AccessIInv'
<1>1. ReadOnly /\ req[r].pc \in {"presented", "lookup", "admitted"}
  BY DEF RefuseOrFail
<1>2. CASE req[r].pc = "admitted" /\ Answer(r, 400, {})
  BY <1>1, <1>2, AnswerKeeps
<1>3. CASE Answer(r, 500, {})
  BY <1>1, <1>3, RefusalKeeps
<1> QED
  BY <1>2, <1>3 DEF RefuseOrFail

\* The one request step that writes: the fix is stored under the device that
\* owns the token, the crossings are of that device's family.
LEMMA StoreStep ==
  ASSUME AccessIInv, NEW r \in Requests, StoreFix(r)
  PROVE  AccessIInv'
<1> USE AccessAssumption
<1> DEFINE who == req[r].who
           t   == req[r].token
<1>1. /\ req[r].pc = "admitted" /\ req[r].route \in WriteRoutes
      /\ fixes' = fixes \cup {<<who, t>>}
      /\ Answer(r, 200, {}) /\ TablesUnchanged
  BY DEF StoreFix, Serving
<1>2. PICK crossed \in SUBSET ListGeofences(Own(r)) : crossings' = crossings \cup {<<who, g>> : g \in crossed}
  BY DEF StoreFix
<1>3. UNCHANGED <<now, families, family, token, expires, owner, place, gone>>
  BY <1>1 DEF TablesUnchanged
<1>4. /\ who \in Devices /\ t \in Tokens /\ owner[t] = who /\ family[who] # Nobody
  BY <1>1 DEF AccessIInv, RequestSound, Credential, Table
<1>5. \A g \in crossed : g \in Places \ gone /\ place[g] = family[who]
  BY <1>4 DEF ListGeofences, Own, AccessIInv, TablesSound, GoneIsGone
<1>6. req' \in [Requests -> Request] /\ \A s \in Requests \ {r} : req'[s] = req[s]
  BY <1>1, RequestsTyped, AnswerIs
<1>7. fixes' \subseteq Devices \X Tokens /\ crossings' \subseteq Devices \X (Places \ gone)
  BY <1>1, <1>2, <1>4, <1>5 DEF AccessIInv, AccessTypeOK
<1>8. AccessTypeOK'
  BY <1>3, <1>6, <1>7 DEF AccessIInv, AccessTypeOK, Request
<1>9. Minted' /\ GoneIsGone'
  BY <1>3 DEF AccessIInv, TablesSound, Minted, GoneIsGone
<1>10. CrossingsAtHome'
  BY <1>2, <1>3, <1>4, <1>5 DEF AccessIInv, TablesSound, CrossingsAtHome
<1>11. FixesOwned'
  BY <1>1, <1>3, <1>4 DEF AccessIInv, TablesSound, FixesOwned
<1>12. TablesKept
  BY <1>3 DEF TablesKept, Dead
<1>13. \A s \in Requests \ {r} : RequestSound(s)'
  BY <1>6, <1>12, RequestKept
<1>14. RequestSound(r)'
  BY <1>1, AnswerSound
<1> QED
  BY <1>8, <1>9, <1>10, <1>11, <1>13, <1>14 DEF AccessIInv, TablesSound

-----------------------------------------------------------------------------
(* The results.                                                            *)

\* Every step preserves the inductive invariant.
LEMMA AccessNextIInv == AccessIInv /\ [AccessNext]_accessVars => AccessIInv'
<1>1. ASSUME AccessIInv, UNCHANGED accessVars PROVE AccessIInv'
  <2>1. AccessTypeOK'
    BY <1>1 DEF AccessIInv, AccessTypeOK, accessVars
  <2>2. TablesSound'
    BY <1>1 DEF AccessIInv, TablesSound, Minted, GoneIsGone, CrossingsAtHome, FixesOwned, accessVars
  <2>3. TablesKept
    BY <1>1 DEF TablesKept, Dead, accessVars
  <2>4. req' = req
    BY <1>1 DEF accessVars
  <2> QED
    BY <1>1, <2>1, <2>2, <2>3, <2>4, CommandKeeps
<1> QED
  BY <1>1, FamilyStep, EnrollStep, RotateStep, AddPlaceStep, RemovePlaceStep, TickStep, PresentStep,
     AuthenticateStep, LookupStep, ReadStep, RefuseStep, StoreStep
  DEF AccessNext

\* The inductive invariant holds throughout.
LEMMA AccessInvariant == AccessSpec => []AccessIInv
BY AccessInitIInv, AccessNextIInv, PTL DEF AccessSpec

\* With any number of handlers between any statements of one another, of the
\* operator's and of the clock, an answer shows nothing of another family
\* (internal/server/read.go, geofence.go, internal/store/geofence.go).
THEOREM FamiliesStayApart == AccessSpec => []OwnFamilyOnly
<1>1. AccessIInv => OwnFamilyOnly
  BY DEF AccessIInv, RequestSound, Shown, OwnFamilyOnly
<1> QED
  BY AccessInvariant, <1>1, PTL

\* A device's token never reads and a viewer's never writes, and a stored fix
\* is under the device whose token it came with (internal/server/server.go).
THEOREM KindsStayApart == AccessSpec => []CredentialsApart
<1>1. AccessIInv => CredentialsApart
  <2> SUFFICES ASSUME AccessIInv PROVE CredentialsApart
    OBVIOUS
  <2>1. \A f \in fixes : owner[f[2]] = f[1]
    BY DEF AccessIInv, TablesSound, FixesOwned
  <2>2. ASSUME NEW r \in Requests, req[r].status \in {200, 403, 404}
        PROVE  req[r].route \in ReadRoutes <=> owner[req[r].token] \in Viewers
    <3>1. req[r].route \in Routes /\ owner[req[r].token] \in Table(req[r].route)
      BY <2>2, RequestsTyped DEF AccessIInv, RequestSound, Credential, Request
    <3>2. ReadRoutes \cap WriteRoutes = {}
      BY DEF ReadRoutes, WriteRoutes
    <3> QED
      BY <3>1, <3>2, AccessAssumption DEF Table, Routes
  <2> QED
    BY <2>1, <2>2 DEF CredentialsApart
<1> QED
  BY AccessInvariant, <1>1, PTL

\* Whatever is minted, rotated or awaited after a dead token was presented,
\* the request stays out (internal/store/entities.go, the lookups by hash).
THEOREM RevocationHolds == AccessSpec => []RevokedStaysOut
<1>1. AccessIInv => RevokedStaysOut
  <2> SUFFICES ASSUME AccessIInv, NEW r \in Requests, req[r].late PROVE req[r].status \in {0, 401, 500}
    BY DEF RevokedStaysOut
  <2>1. req[r].status \in {0, 200, 400, 401, 403, 404, 500}
    BY RequestsTyped DEF Request
  <2> QED
    BY <2>1 DEF AccessIInv, RequestSound, Credential
<1> QED
  BY AccessInvariant, <1>1, PTL
=============================================================================
