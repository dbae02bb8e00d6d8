---------------------------- MODULE FamilyAccess ----------------------------
(* Who may read and write what: the operator's commands (cmd/tracker), the *)
(* two credential tables (internal/store/entities.go), the gates in front  *)
(* of the routes (internal/server/server.go, read.go) and the family-scoped *)
(* queries behind them (internal/store).  A request authenticates, looks   *)
(* up and reads in separate statements, between which the operator rotates *)
(* tokens and removes Places, and time passes.                             *)
EXTENDS Integers, FiniteSets

CONSTANTS
    Families, Devices, Viewers, Places,
    Tokens,     \* what auth.Generate draws from; a drawn token is never drawn again
    Requests,   \* handlers, which take one request after another
    MaxNow,     \* bound on the clock
    TTLs        \* lifetimes the operator gives; 0 is "never expires"

Principals == Devices \cup Viewers
Nobody     == "nobody"     \* no family, no owner, no argument
Forever    == MaxNow + 1   \* a NULL expires_at

\* The identifiers of the tables are apart, and a lifetime is a number.
ASSUME AccessAssumption ==
    /\ Devices \cap Viewers = {} /\ Principals \cap Places = {}
    /\ Nobody \notin Families \cup Principals \cup Tokens
    /\ MaxNow \in Nat /\ TTLs \subseteq Int

VARIABLES
    now,       \* the database's clock
    families,  \* rows of families
    family,    \* family_id of each device and viewer; Nobody before it is enrolled
    token,     \* the token whose hash its row holds
    expires,   \* its expires_at
    owner,     \* history: the principal each token was minted for
    place,     \* family_id of each Place; Nobody if there is no such row
    gone,      \* history: Places removed
    fixes,     \* <<device, token>>: devices with stored fixes, and the token each came with
    crossings, \* <<device, place>>: geofence_events
    req        \* the request each handler has, or answered last

accessVars == <<now, families, family, token, expires, owner, place, gone, fixes, crossings, req>>

\* The two ingest routes differ in the shape of the body only, and are one here.
WriteRoutes == {"fixes"}
ReadRoutes  == {"positions", "history", "near", "places", "geofence-events"}
Routes      == WriteRoutes \cup ReadRoutes

\* status 0 is a request still open; late tells, of the moment the request
\* came in, whether its token was dead already.
NoRequest == [pc |-> "idle", route |-> "positions", token |-> Nobody, arg |-> Nobody,
              who |-> Nobody, status |-> 0, data |-> {}, late |-> FALSE]

AccessInit ==
    /\ now = 0 /\ families = {}
    /\ family = [p \in Principals |-> Nobody]
    /\ token = [p \in Principals |-> Nobody]
    /\ expires = [p \in Principals |-> Forever]
    /\ owner = [t \in Tokens |-> Nobody]
    /\ place = [g \in Places |-> Nobody]
    /\ gone = {} /\ fixes = {} /\ crossings = {}
    /\ req = [r \in Requests |-> NoRequest]

-----------------------------------------------------------------------------
(* The operator's commands.  Each validates its flags, opens the database  *)
(* and runs one statement; what it refuses changes nothing.                *)

CommandUnchanged == UNCHANGED <<now, fixes, req>>

runCreateFamily(f) ==
    /\ f \notin families
    /\ families' = families \cup {f}
    /\ UNCHANGED <<family, token, expires, owner, place, gone, crossings>> /\ CommandUnchanged

\* A token hash is unique, so a row never shares its token with another.
Mint(p, t) ==
    /\ owner[t] = Nobody
    /\ owner' = [owner EXCEPT ![t] = p]
    /\ token' = [token EXCEPT ![p] = t]

\* The INSERT of CreateDevice and CreateViewer; the family must exist (a
\* foreign key).
CreatePrincipal(p, f) ==
    /\ family[p] = Nobody /\ f \in families
    /\ family' = [family EXCEPT ![p] = f]

\* runEnroll and runAddViewer.
Enroll(p, f, t) ==
    /\ CreatePrincipal(p, f)
    /\ Mint(p, t)
    /\ UNCHANGED <<families, expires, place, gone, crossings>> /\ CommandUnchanged

expiryFromTTL(ttl) == IF ttl <= 0 THEN Forever ELSE now + ttl

\* The UPDATE of a principal's row: hash and expiry together.
UpdateTokenHash(p, t, expiry) ==
    /\ family[p] # Nobody
    /\ expires' = [expires EXCEPT ![p] = expiry]
    /\ Mint(p, t)

\* runRotateDeviceToken and runRotateViewerToken.
RotateToken(p, t, ttl) ==
    /\ UpdateTokenHash(p, t, expiryFromTTL(ttl))
    /\ UNCHANGED <<families, family, place, gone, crossings>> /\ CommandUnchanged

\* A ring with an impossible vertex, with fewer than three distinct corners,
\* or one that PostGIS calls invalid, is refused before anything is stored.
CreateGeofence(g, f, ring) ==
    /\ ring = "polygon"
    /\ place[g] = Nobody /\ g \notin gone /\ f \in families
    /\ place' = [place EXCEPT ![g] = f]

runAddPlace(g, f) ==
    /\ \E ring \in {"polygon", "out of range", "two corners", "bowtie"} : CreateGeofence(g, f, ring)
    /\ UNCHANGED <<families, family, token, expires, owner, gone, crossings>> /\ CommandUnchanged

\* DELETE ... WHERE id AND family_id; the crossings go with the Place.
DeleteGeofence(g, f) ==
    /\ place[g] = f /\ f # Nobody
    /\ place' = [place EXCEPT ![g] = Nobody]
    /\ crossings' = {c \in crossings : c[2] # g}

runRemovePlace(g, f) ==
    /\ DeleteGeofence(g, f)
    /\ gone' = gone \cup {g}
    /\ UNCHANGED <<families, family, token, expires, owner>> /\ CommandUnchanged

AccessTick ==
    /\ now < MaxNow /\ now' = now + 1
    /\ UNCHANGED <<families, family, token, expires, owner, place, gone, fixes, crossings, req>>

-----------------------------------------------------------------------------
(* Requests.                                                               *)

TablesUnchanged == UNCHANGED <<now, families, family, token, expires, owner, place, gone>>

\* Mutant: the lookup does not look at expires_at.
LiveUnexpired(p, t) == token[p] = t

\* The rows the lookup by token_hash matches.
Live(p, t) == token[p] = t /\ expires[p] > now

Answer(r, status, data) == req' = [req EXCEPT ![r].pc = "answered", ![r].status = status, ![r].data = data]

\* auth.FromRequest: without a credential the answer is a 401 and no lookup.
Present(r) ==
    /\ req[r].pc \in {"idle", "answered"}
    /\ \E route \in Routes, t \in Tokens \cup {Nobody}, arg \in Devices \cup {Nobody} :
        /\ t # Nobody => owner[t] # Nobody
        /\ (arg # Nobody) <=> (route = "history")
        /\ LET sent == [NoRequest EXCEPT !.route = route, !.token = t, !.arg = arg,
                                         !.late = \A p \in Principals : token[p] # t \/ expires[p] <= now] IN
           req' = [req EXCEPT ![r] = IF t = Nobody
                                     THEN [sent EXCEPT !.pc = "answered", !.status = 401]
                                     ELSE [sent EXCEPT !.pc = "presented"]]
    /\ UNCHANGED <<fixes, crossings>> /\ TablesUnchanged

\* Mutant: one lookup over both tables.
TableAny(route) == Principals

\* requireDevice and requireViewer: which table a route's token is looked up in.
Table(route) == IF route \in WriteRoutes THEN Devices ELSE Viewers

Authenticate(r) ==
    /\ req[r].pc = "presented"
    /\ \/ \E p \in Table(req[r].route) :
            /\ Live(p, req[r].token)
            /\ req' = [req EXCEPT ![r].who = p,
                                  ![r].pc = IF req[r].route = "history" THEN "lookup" ELSE "admitted"]
       \/ /\ \A p \in Table(req[r].route) : ~Live(p, req[r].token)
          /\ Answer(r, 401, {})
    /\ UNCHANGED <<fixes, crossings>> /\ TablesUnchanged

Own(r) == family[req[r].who]

\* getDeviceHistory: 404 for no such device, 403 for another family's.
LookupDevice(r) ==
    /\ req[r].pc = "lookup"
    /\ LET f == family[req[r].arg] IN
        \/ f = Nobody /\ Answer(r, 404, {})
        \/ f # Nobody /\ f # Own(r) /\ Answer(r, 403, {})
        \/ f = Own(r) /\ req' = [req EXCEPT ![r].pc = "admitted"]
    /\ UNCHANGED <<fixes, crossings>> /\ TablesUnchanged

Serving(r, route) == req[r].pc = "admitted" /\ req[r].route = route
ReadOnly == UNCHANGED <<fixes, crossings>> /\ TablesUnchanged

Located == {f[1] : f \in fixes}

\* Every device of the family, those without a fix included.
DeviceStates(f) == {d \in Devices : family[d] = f}

getPositions(r) ==
    /\ Serving(r, "positions")
    /\ Answer(r, 200, DeviceStates(Own(r)))
    /\ ReadOnly

\* The page of one device's fixes, scoped by family and device.
getDeviceHistory(r) ==
    /\ Serving(r, "history")
    /\ Answer(r, 200, {d \in Located : family[d] = Own(r) /\ d = req[r].arg})
    /\ ReadOnly

\* The family's fixes within a radius: any of them.
FixesNear(f) == SUBSET {d \in Located : family[d] = f}

getNear(r) ==
    /\ Serving(r, "near")
    /\ \E near \in FixesNear(Own(r)) : Answer(r, 200, near)
    /\ ReadOnly

ListGeofences(f) == {g \in Places : place[g] = f}

getPlaces(r) ==
    /\ Serving(r, "places")
    /\ Answer(r, 200, ListGeofences(Own(r)))
    /\ ReadOnly

\* Mutant: the log is scoped by nothing.
ListGeofenceEventsAll(f) == {c \in crossings : place[c[2]] # Nobody}

\* Scoped by the device's family, and joined with the Places that exist.
ListGeofenceEvents(f) == {c \in crossings : family[c[1]] = f /\ place[c[2]] # Nobody}

getGeofenceEvents(r) ==
    /\ Serving(r, "geofence-events")
    /\ LET rows == ListGeofenceEvents(Own(r)) IN
       Answer(r, 200, {c[1] : c \in rows} \cup {c[2] : c \in rows})
    /\ ReadOnly

\* postFix and postOwnTracks store under the device the token names; the
\* evaluation records a crossing of any of the family's Places.  A Place
\* removed meanwhile is refused by the foreign key.
StoreFix(r) ==
    /\ \E route \in WriteRoutes : Serving(r, route)
    /\ fixes' = fixes \cup {<<req[r].who, req[r].token>>}
    /\ \E crossed \in SUBSET ListGeofences(Own(r)) :
        crossings' = crossings \cup {<<req[r].who, g>> : g \in crossed}
    /\ Answer(r, 200, {})
    /\ TablesUnchanged

\* A malformed body or parameter, and a statement that fails.
RefuseOrFail(r) ==
    /\ req[r].pc \in {"presented", "lookup", "admitted"}
    /\ \/ req[r].pc = "admitted" /\ Answer(r, 400, {})
       \/ Answer(r, 500, {})
    /\ ReadOnly

-----------------------------------------------------------------------------

AccessNext ==
    \/ \E f \in Families : runCreateFamily(f)
    \/ \E p \in Principals, f \in Families, t \in Tokens : Enroll(p, f, t)
    \/ \E p \in Principals, t \in Tokens, ttl \in TTLs : RotateToken(p, t, ttl)
    \/ \E g \in Places, f \in Families : runAddPlace(g, f) \/ runRemovePlace(g, f)
    \/ AccessTick
    \/ \E r \in Requests :
        \/ Present(r) \/ Authenticate(r) \/ LookupDevice(r) \/ StoreFix(r)
        \/ getPositions(r) \/ getDeviceHistory(r) \/ getNear(r) \/ getPlaces(r) \/ getGeofenceEvents(r)
        \/ RefuseOrFail(r)

AccessSpec == AccessInit /\ [][AccessNext]_accessVars

-----------------------------------------------------------------------------
(* Properties.                                                             *)

AccessTypeOK ==
    /\ now \in 0 .. MaxNow /\ families \subseteq Families
    /\ family \in [Principals -> families \cup {Nobody}]
    /\ token \in [Principals -> Tokens \cup {Nobody}]
    /\ expires \in [Principals -> Nat]
    /\ owner \in [Tokens -> Principals \cup {Nobody}]
    /\ place \in [Places -> families \cup {Nobody}]
    /\ gone \subseteq Places
    /\ fixes \subseteq (Devices \X Tokens) /\ crossings \subseteq (Devices \X (Places \ gone))
    /\ req \in [Requests -> [pc : {"idle", "presented", "lookup", "admitted", "answered"},
                             route : Routes, token : Tokens \cup {Nobody}, arg : Devices \cup {Nobody},
                             who : Principals \cup {Nobody}, status : {0, 200, 400, 401, 403, 404, 500},
                             data : SUBSET (Devices \cup Places), late : BOOLEAN]]

FamilyOf(x) == IF x \in Places THEN place[x] ELSE family[x]

\* Nothing of another family leaves the server: whatever an answer shows is of
\* the family of the principal its token was minted for, although the tables
\* change between the statements of a request (a Place shown may have been
\* removed since).  (internal/server/read.go:29-264, geofence.go,
\* internal/store/geofence.go:171-248)
OwnFamilyOnly ==
    \A r \in Requests : \A x \in req[r].data :
        FamilyOf(x) = family[owner[req[r].token]] \/ x \in gone

\* The two kinds of credential stay apart: only a viewer's token reads, only a
\* device's token writes, and a fix is stored under the device its token was
\* minted for (internal/server/server.go:131-160, internal/store/entities.go).
CredentialsApart ==
    /\ \A r \in Requests : req[r].status \in {200, 403, 404} =>
        (req[r].route \in ReadRoutes <=> owner[req[r].token] \in Viewers)
    /\ \A f \in fixes : owner[f[2]] = f[1]

\* A token that was rotated away or had expired when its request came in gets
\* nothing but a 401 (or an internal error), whatever is minted while the
\* request is on its way (internal/store/entities.go:70-125).
RevokedStaysOut ==
    \A r \in Requests : req[r].late => req[r].status \in {0, 401, 500}

=============================================================================
