-------------------------- MODULE SessionsProofs --------------------------
(***************************************************************************)
(* Proofs about Sessions, for any number of tabs, logins, tokens and faults, *)
(* and any life of sessions and login states.                                *)
(***************************************************************************)
EXTENDS Sessions, TLAPS

Guilds == {"absent", "none", "manager", "botowner"}

Rows == [until : Nat, revoked : BOOLEAN, token : Nat, guilds : Guilds]

Kinds == {"none", "callback", "csrf", "write", "logout"}

Ats == {"idle", "insert", "answer", "lookup", "found", "running", "csrf", "store",
        "again", "strip", "revoke"}

Requests == [kind : Kinds, at : Ats, sid : Nat, token : Nat, rec : Rows, late : BOOLEAN]

TypeOK ==
  /\ now \in Nat /\ faults \in Nat
  /\ drawn \in [states : Nat, tokens : Nat]
  /\ DOMAIN states \subseteq 1 .. drawn.states
  /\ rows \in [Sessions -> Rows]
  /\ login \in [Sessions -> [state : Nat, token : Nat]]
  /\ cookie \in Sessions \cup {0}
  /\ page \in [Tabs -> [token : Nat, listed : BOOLEAN]]
  /\ req \in [Tabs -> Requests]

\* A login state that was consumed, by a callback under way or by a session, is on
\* the list no more, and nobody else has it.
StatesSpent ==
  /\ \A t \in Tabs : req[t].at = "insert" =>
       /\ req[t].sid \in 1 .. drawn.states /\ req[t].sid \notin DOMAIN states
       /\ \A s \in Sessions : login[s].state # req[t].sid
       /\ \A u \in Tabs : req[u].at = "insert" /\ req[u].sid = req[t].sid => u = t
  /\ \A s \in Sessions : login[s].state # 0 =>
       login[s].state <= drawn.states /\ login[s].state \notin DOMAIN states
  /\ \A r, s \in Sessions : login[r].state # 0 /\ login[r].state = login[s].state => r = s

\* The requests that carry a session, and those sent for a dead one: they get no
\* further than the session middleware, whenever its query was answered.
SessionsFit ==
  \A t \in Tabs :
    /\ req[t].at \notin {"idle", "insert"} => req[t].sid \in Sessions
    /\ req[t].at \in {"lookup", "found"} => req[t].kind \in {"csrf", "write", "logout"}
    /\ req[t].late => /\ req[t].at \in {"lookup", "found"}
                      /\ req[t].sid \in Sessions /\ Dead(req[t].sid)
                      /\ req[t].at = "found" => ~Live(req[t].rec)

IInv == TypeOK /\ StatesSpent /\ SessionsFit

-----------------------------------------------------------------------------
(* Rows *)

LEMMA NoRowFacts == NoRow \in Rows /\ Idle \in Requests /\ Idle.at = "idle" /\ ~Idle.late
BY DEF NoRow, Idle, Rows, Guilds, Requests, Kinds, Ats

LEMMA UpdateFacts ==
  ASSUME rows \in [Sessions -> Rows], NEW s \in Sessions, NEW row \in Rows
  PROVE  /\ UpdateMetadata(s, row) \in [Sessions -> Rows]
         /\ \A r \in Sessions : ~Live(rows[r]) => ~Live(UpdateMetadata(s, row)[r])
<1>1. CASE rows[s] = NoRow \/ rows[s].revoked
  BY <1>1 DEF UpdateMetadata
<1>2. CASE ~(rows[s] = NoRow \/ rows[s].revoked)
  <2> DEFINE new == [rows[s] EXCEPT !.token = row.token, !.guilds = row.guilds]
  <2>1. UpdateMetadata(s, row) = [rows EXCEPT ![s] = new]
    BY <1>2 DEF UpdateMetadata, Rows
  <2>2. rows[s] \in Rows
    OBVIOUS
  <2>3. new \in Rows /\ new.until = rows[s].until /\ new.revoked = rows[s].revoked
    BY <2>2 DEF Rows
  <2> HIDE DEF new
  <2>4. UpdateMetadata(s, row) \in [Sessions -> Rows]
    BY <2>1, <2>3
  <2>5. \A r \in Sessions : UpdateMetadata(s, row)[r] = IF r = s THEN new ELSE rows[r]
    BY <2>1
  <2> QED BY <1>2, <2>3, <2>4, <2>5 DEF Live
<1> QED BY <1>1, <1>2

LEMMA RevokeFacts ==
  ASSUME rows \in [Sessions -> Rows], NEW s \in Sessions
  PROVE  /\ Revoke(s) \in [Sessions -> Rows]
         /\ \A r \in Sessions : ~Live(rows[r]) => ~Live(Revoke(s)[r])
<1>1. CASE rows[s] = NoRow
  BY <1>1 DEF Revoke
<1>2. CASE rows[s] # NoRow
  <2> DEFINE new == [rows[s] EXCEPT !.revoked = TRUE]
  <2>1. Revoke(s) = [rows EXCEPT ![s] = new]
    BY <1>2 DEF Revoke
  <2>2. rows[s] \in Rows
    OBVIOUS
  <2>3. new \in Rows /\ new.revoked
    BY <2>2 DEF Rows
  <2> HIDE DEF new
  <2> QED BY <2>1, <2>3 DEF Live
<1> QED BY <1>1, <1>2

-----------------------------------------------------------------------------
(* Steps that leave the login states alone *)

\* A step that consumes no login state and revives no session keeps the invariant when
\* it makes no request late and sends none to insert a row.
LEMMA Harmless ==
  ASSUME IInv, TypeOK', drawn'.states = drawn.states, UNCHANGED login,
         DOMAIN states' \subseteq DOMAIN states,
         \A s \in Sessions : Dead(s) => Dead(s)',
         now <= now',
         \A t \in Tabs : req'[t].at = "insert" => req'[t] = req[t],
         \A t \in Tabs : req'[t].at \notin {"idle", "insert"} => req'[t].sid \in Sessions,
         \A t \in Tabs : req'[t].at \in {"lookup", "found"} =>
            req'[t].kind \in {"csrf", "write", "logout"},
         \A t \in Tabs : req'[t].late =>
            \/ req'[t] = req[t]
            \/ /\ req'[t].at \in {"lookup", "found"} /\ req'[t].sid \in Sessions
               /\ Dead(req'[t].sid)
               /\ req'[t].at = "found" => ~Live(req'[t].rec)
  PROVE  IInv'
<1> USE DEF IInv
<1>1. StatesSpent'
  <2>1. \A t \in Tabs : req'[t].at = "insert" => req[t].at = "insert" /\ req'[t].sid = req[t].sid
    OBVIOUS
  <2> QED BY <2>1 DEF StatesSpent
<1>2. SessionsFit'
  <2> SUFFICES ASSUME NEW t \in Tabs, req'[t].late
               PROVE  /\ req'[t].at \in {"lookup", "found"}
                      /\ req'[t].sid \in Sessions /\ Dead(req[t].sid)'
                      /\ req'[t].at = "found" => ~Live(req[t].rec)'
    BY DEF SessionsFit
  <2>1. /\ req'[t].at \in {"lookup", "found"} /\ req'[t].sid \in Sessions
        /\ Dead(req'[t].sid)
        /\ req'[t].at = "found" => ~Live(req'[t].rec)
    BY DEF SessionsFit
  <2>2. Dead(req[t].sid)'
    <3>1. \A s \in Sessions : Dead(s) => login'[s].state # 0 /\ ~Live(rows[s])'
      BY DEF Dead
    <3> QED BY <2>1, <3>1 DEF Dead
  <2>3. req'[t].at = "found" => ~Live(req[t].rec)'
    <3>1. req'[t].rec \in Rows /\ now \in Nat /\ now' \in Nat
      BY DEF TypeOK, Requests
    <3>2. req'[t].rec.until \in Nat
      BY <3>1 DEF Rows
    <3> QED BY <2>1, <3>1, <3>2 DEF Live
  <2> QED BY <2>1, <2>2, <2>3
<1> QED BY <1>1, <1>2

\* One tab's request goes on, and is not late.
LEMMA OneTab ==
  ASSUME IInv, NEW t \in Tabs, TypeOK', UNCHANGED <<now, login>>,
         drawn'.states = drawn.states,
         DOMAIN states' \subseteq DOMAIN states,
         \A s \in Sessions : ~Live(rows[s]) => ~Live(rows'[s]),
         \A u \in Tabs \ {t} : req'[u] = req[u],
         req'[t].at \notin {"insert", "lookup", "found"},
         req'[t].at # "idle" => req'[t].sid \in Sessions,
         ~req'[t].late
  PROVE  IInv'
<1> USE DEF IInv
<1>1. \A s \in Sessions : Dead(s) => Dead(s)'
  BY DEF Dead, Live
<1>2. now <= now'
  BY DEF TypeOK
<1>3. \A u \in Tabs : req'[u].at = "insert" => req'[u] = req[u]
  OBVIOUS
<1>4. \A u \in Tabs : req'[u].at \notin {"idle", "insert"} => req'[u].sid \in Sessions
  BY DEF SessionsFit
<1>5. \A u \in Tabs : req'[u].late => req'[u] = req[u]
  OBVIOUS
<1>6. \A u \in Tabs : req'[u].at \in {"lookup", "found"} =>
        req'[u].kind \in {"csrf", "write", "logout"}
  BY DEF SessionsFit
<1> QED BY <1>1, <1>2, <1>3, <1>4, <1>5, <1>6, Harmless

\* The next state of one tab's request.
LEMMA Assigned ==
  ASSUME TypeOK, NEW t \in Tabs, NEW r \in Requests
  PROVE  /\ [req EXCEPT ![t] = r] \in [Tabs -> Requests]
         /\ [req EXCEPT ![t] = r][t] = r
         /\ \A u \in Tabs \ {t} : [req EXCEPT ![t] = r][u] = req[u]
BY DEF TypeOK

LEMMA RefusedFacts ==
  ASSUME TypeOK, NEW t \in Tabs, Refused(t)
  PROVE  /\ req' \in [Tabs -> Requests]
         /\ req'[t] = Idle
         /\ \A u \in Tabs \ {t} : req'[u] = req[u]
         /\ page' \in [Tabs -> [token : Nat, listed : BOOLEAN]]
BY NoRowFacts DEF Refused, TypeOK

-----------------------------------------------------------------------------
(* Login *)

LEMMA LoginKeeps ==
  ASSUME IInv, NEW t \in Tabs, Login(t)
  PROVE  IInv'
<1> USE DEF IInv
<1>1. /\ drawn \in [states : Nat, tokens : Nat] /\ drawn.states \in Nat
      /\ drawn' = [drawn EXCEPT !.states = @ + 1]
      /\ DOMAIN states \subseteq 1 .. drawn.states
  BY DEF Login, TypeOK
<1>2. drawn' \in [states : Nat, tokens : Nat] /\ drawn'.states = drawn.states + 1
  BY <1>1
<1>3. DOMAIN states' \subseteq DOMAIN states \cup {drawn'.states}
  BY DEF Login, Purged
<1>4. UNCHANGED <<now, rows, login, cookie, page, req, faults>>
  BY DEF Login
<1>5. DOMAIN states' \subseteq 1 .. drawn'.states
  BY <1>1, <1>2, <1>3
<1>6. TypeOK'
  BY <1>2, <1>4, <1>5 DEF TypeOK
<1>7. \A n \in 1 .. drawn.states : n \in 1 .. drawn'.states /\ n # drawn'.states
  BY <1>1, <1>2
<1>8. \A s \in Sessions : login[s].state # 0 => login[s].state \in 1 .. drawn.states
  BY <1>1 DEF TypeOK, StatesSpent
<1>9. StatesSpent'
  <2>1. \A u \in Tabs : req[u].at = "insert" =>
          req[u].sid \in 1 .. drawn'.states /\ req[u].sid \notin DOMAIN states'
    BY <1>3, <1>7 DEF StatesSpent
  <2>2. \A s \in Sessions : login[s].state # 0 =>
          login[s].state <= drawn'.states /\ login[s].state \notin DOMAIN states'
    BY <1>2, <1>3, <1>7, <1>8 DEF StatesSpent
  <2> QED BY <1>4, <2>1, <2>2 DEF StatesSpent
<1>10. SessionsFit'
  BY <1>4 DEF SessionsFit, Dead, Live
<1> QED BY <1>6, <1>9, <1>10

LEMMA CallbackKeeps ==
  ASSUME IInv, NEW t \in Tabs, NEW o \in 1 .. MaxLogins, Callback(t, o)
  PROVE  IInv'
<1> USE DEF IInv
<1>1. /\ DOMAIN states' = DOMAIN states \ {o} /\ o \in 1 .. drawn.states /\ o \in Nat
      /\ req[t] = Idle /\ UNCHANGED <<now, drawn, rows, login, cookie, page, faults>>
  BY SessionsAssumption DEF Callback, Without
<1>2. CASE o \in DOMAIN states /\ states[o] > now
  <2> DEFINE r == [Idle EXCEPT !.kind = "callback", !.at = "insert", !.sid = o]
  <2>1. r \in Requests /\ r.at = "insert" /\ r.sid = o /\ ~r.late
    BY <1>1, NoRowFacts DEF Idle, Requests, Kinds, Ats
  <2>2. req' = [req EXCEPT ![t] = r]
    BY <1>2 DEF Callback
  <2> HIDE DEF r
  <2>3. /\ req' \in [Tabs -> Requests] /\ req'[t] = r
        /\ \A u \in Tabs \ {t} : req'[u] = req[u]
    BY <2>1, <2>2, Assigned
  <2>4. TypeOK'
    BY <1>1, <2>3 DEF TypeOK
  <2>5. StatesSpent'
    <3>1. \A s \in Sessions : login[s].state # o
      BY <1>1, <1>2 DEF StatesSpent, TypeOK
    <3>2. \A u \in Tabs : req[u].at = "insert" => req[u].sid # o
      BY <1>2 DEF StatesSpent
    <3> QED BY <1>1, <2>1, <2>3, <3>1, <3>2 DEF StatesSpent
  <2>6. SessionsFit'
    BY <1>1, <2>1, <2>3 DEF SessionsFit, Dead, Live
  <2> QED BY <2>4, <2>5, <2>6
<1>3. CASE ~(o \in DOMAIN states /\ states[o] > now)
  <2>1. req' = req
    BY <1>3 DEF Callback
  <2>2. TypeOK'
    BY <1>1, <2>1 DEF TypeOK
  <2>3. StatesSpent'
    BY <1>1, <2>1 DEF StatesSpent
  <2>4. SessionsFit'
    BY <1>1, <2>1 DEF SessionsFit, Dead, Live
  <2> QED BY <2>2, <2>3, <2>4
<1> QED BY <1>2, <1>3

LEMMA CreateKeeps ==
  ASSUME IInv, NEW t \in Tabs, NEW guilds \in Rights, CreateSession(t, guilds)
  PROVE  IInv'
<1> USE DEF IInv
<1>1. PICK s \in Sessions :
        /\ FreshId(s)
        /\ drawn' = [drawn EXCEPT !.tokens = @ + 1]
        /\ rows' = Inserted(s, guilds, drawn'.tokens)
        /\ login' = [login EXCEPT ![s] = [state |-> req[t].sid, token |-> drawn'.tokens]]
        /\ req' = [req EXCEPT ![t] = [Idle EXCEPT !.kind = "callback", !.at = "answer", !.sid = s]]
  BY DEF CreateSession
<1>2. /\ req[t].at = "insert" /\ UNCHANGED <<now, states, cookie, page, faults>>
      /\ login[s].state = 0 /\ s \in Nat
  BY <1>1, SessionsAssumption DEF CreateSession, FreshId, Sessions
<1>3. drawn' \in [states : Nat, tokens : Nat] /\ drawn'.states = drawn.states
  BY <1>1 DEF TypeOK
<1>4. req[t].sid \in 1 .. drawn.states /\ req[t].sid \in Nat /\ req[t].sid # 0
  BY <1>2 DEF StatesSpent, TypeOK
<1>5. rows' \in [Sessions -> Rows] /\ \A r \in Sessions \ {s} : rows'[r] = rows[r]
  <2> DEFINE row == [until |-> now + Duration, revoked |-> FALSE, token |-> 0, guilds |-> guilds]
  <2>1. now + Duration \in Nat /\ guilds \in Guilds
    BY SessionsAssumption DEF TypeOK, Guilds
  <2>2. row \in Rows
    BY <2>1 DEF Rows
  <2> HIDE DEF row
  <2>3. [row EXCEPT !.token = drawn'.tokens] \in Rows
    BY <1>3, <2>2 DEF Rows
  <2>4. rows' = [rows EXCEPT ![s] = [row EXCEPT !.token = drawn'.tokens]]
    BY <1>1 DEF Inserted, WithToken, row
  <2> QED BY <2>3, <2>4 DEF TypeOK
<1>6. /\ login' \in [Sessions -> [state : Nat, token : Nat]] /\ login'[s].state = req[t].sid
      /\ \A r \in Sessions \ {s} : login'[r] = login[r]
  BY <1>1, <1>3, <1>4 DEF TypeOK
<1> DEFINE a == [Idle EXCEPT !.kind = "callback", !.at = "answer", !.sid = s]
<1>7. a \in Requests /\ a.at = "answer" /\ a.sid = s /\ ~a.late
  BY <1>2, NoRowFacts DEF Idle, Requests, Kinds, Ats
<1>8. /\ req' \in [Tabs -> Requests] /\ req'[t] = a
      /\ \A u \in Tabs \ {t} : req'[u] = req[u]
  BY <1>1, <1>7, Assigned
<1> HIDE DEF a
<1>9. TypeOK'
  BY <1>2, <1>3, <1>5, <1>6, <1>8 DEF TypeOK
<1>10. StatesSpent'
  <2>1. \A u \in Tabs : req'[u].at = "insert" => u # t /\ req'[u] = req[u]
    BY <1>7, <1>8
  <2>2. \A u \in Tabs : req'[u].at = "insert" => req[u].sid # req[t].sid
    BY <1>2, <2>1 DEF StatesSpent
  <2>3. \A u \in Tabs : req'[u].at = "insert" =>
          /\ req'[u].sid \in 1 .. drawn'.states /\ req'[u].sid \notin DOMAIN states'
          /\ \A r \in Sessions : login'[r].state # req'[u].sid
    BY <1>2, <1>3, <1>6, <2>1, <2>2 DEF StatesSpent
  <2>4. \A u, v \in Tabs : req'[u].at = "insert" /\ req'[v].at = "insert"
                           /\ req'[v].sid = req'[u].sid => v = u
    BY <2>1 DEF StatesSpent
  <2>5. \A r \in Sessions : login'[r].state # 0 =>
          login'[r].state <= drawn'.states /\ login'[r].state \notin DOMAIN states'
    BY <1>2, <1>3, <1>4, <1>6 DEF StatesSpent, TypeOK
  <2>6. \A r \in Sessions \ {s} : login'[r].state # login'[s].state
    BY <1>2, <1>6 DEF StatesSpent
  <2>7. \A q, r \in Sessions : login'[q].state # 0 /\ login'[q].state = login'[r].state => q = r
    BY <1>6, <2>6 DEF StatesSpent
  <2> QED BY <2>3, <2>4, <2>5, <2>7 DEF StatesSpent
<1>11. SessionsFit'
  <2>1. \A r \in Sessions : Dead(r) => Dead(r)' /\ r # s
    BY <1>2, <1>5, <1>6 DEF Dead, Live
  <2>2. \A u \in Tabs \ {t} : req'[u].late =>
          /\ req'[u].at \in {"lookup", "found"} /\ req'[u].sid \in Sessions
          /\ Dead(req'[u].sid) /\ (req'[u].at = "found" => ~Live(req'[u].rec))
    BY <1>8 DEF SessionsFit
  <2>3. \A u \in Tabs \ {t} : req'[u].late => Dead(req[u].sid)'
    BY <1>8, <2>1, <2>2 DEF Dead, Live
  <2>4. \A u \in Tabs \ {t} : req'[u].late /\ req'[u].at = "found" => ~Live(req[u].rec)'
    BY <1>2, <2>2 DEF Live
  <2>5. \A u \in Tabs : req'[u].at \notin {"idle", "insert"} => req'[u].sid \in Sessions
    BY <1>7, <1>8 DEF SessionsFit
  <2>6. ~req'[t].late
    BY <1>7, <1>8
  <2>7. \A u \in Tabs : req'[u].at \in {"lookup", "found"} =>
          req'[u].kind \in {"csrf", "write", "logout"}
    BY <1>7, <1>8 DEF SessionsFit
  <2> QED BY <2>2, <2>3, <2>4, <2>5, <2>6, <2>7 DEF SessionsFit
<1> QED BY <1>9, <1>10, <1>11

-----------------------------------------------------------------------------
(* Requests with a session *)

\* A request that is sent with the browser's cookie, late or not.
LEMMA SentKeeps ==
  ASSUME IInv, NEW t \in Tabs, NEW r \in Requests, cookie # 0,
         r.at = "lookup", r.sid = cookie, r.late => Dead(cookie),
         r.kind \in {"csrf", "write", "logout"},
         req' = [req EXCEPT ![t] = r],
         page' \in [Tabs -> [token : Nat, listed : BOOLEAN]],
         UNCHANGED <<now, states, drawn, rows, login, cookie, faults>>
  PROVE  IInv'
<1> USE DEF IInv
<1>1. /\ req' \in [Tabs -> Requests] /\ req'[t] = r
      /\ \A u \in Tabs \ {t} : req'[u] = req[u]
  BY Assigned
<1>2. TypeOK'
  BY <1>1 DEF TypeOK
<1>3. cookie \in Sessions
  BY DEF TypeOK
<1>4. StatesSpent'
  BY <1>1 DEF StatesSpent
<1>5. SessionsFit'
  BY <1>1, <1>3 DEF SessionsFit, Dead, Live
<1> QED BY <1>2, <1>4, <1>5

LEMMA SentFacts ==
  ASSUME TypeOK, NEW t \in Tabs, cookie # 0, NEW kind \in {"csrf", "write", "logout"}
  PROVE  /\ Sent(kind, t) \in Requests /\ Sent(kind, t).at = "lookup"
         /\ Sent(kind, t).sid = cookie /\ Sent(kind, t).late = Dead(cookie)
         /\ Sent(kind, t).kind = kind
<1>1. page[t].token \in Nat /\ cookie \in Nat /\ Dead(cookie) \in BOOLEAN
  BY SessionsAssumption DEF TypeOK, Sessions, Dead, Live
<1> QED BY <1>1, NoRowFacts DEF Sent, Idle, Requests, Kinds, Ats

LEMMA LoadKeeps ==
  ASSUME IInv, NEW t \in Tabs, NEW botIn \in BOOLEAN, Load(t, botIn)
  PROVE  IInv'
<1> USE DEF IInv
<1> DEFINE me == Me(rows[cookie], botIn)
           r == [Sent("csrf", t) EXCEPT !.token = 0]
<1>1. me.listed \in BOOLEAN
  BY DEF Me, Eligible, CanAccessGuild, ResolveGuild, OwnerOverride, GuildPermission
<1>2. /\ cookie # 0 /\ UNCHANGED <<now, states, drawn, rows, login, cookie, faults>>
      /\ page' = [page EXCEPT ![t] = [token |-> 0, listed |-> me.listed]]
      /\ req' = IF me.authenticated THEN [req EXCEPT ![t] = r] ELSE req
  BY DEF Load
<1> HIDE DEF me
<1>3. page' \in [Tabs -> [token : Nat, listed : BOOLEAN]]
  BY <1>1, <1>2 DEF TypeOK
<1>4. CASE me.authenticated
  <2>1. Sent("csrf", t) \in Requests /\ Sent("csrf", t).at = "lookup"
        /\ Sent("csrf", t).sid = cookie /\ Sent("csrf", t).late = Dead(cookie)
        /\ Sent("csrf", t).kind = "csrf"
    BY <1>2, SentFacts
  <2>2. r \in Requests /\ r.at = "lookup" /\ r.sid = cookie /\ (r.late => Dead(cookie))
        /\ r.kind = "csrf"
    BY <2>1 DEF Requests
  <2> HIDE DEF r
  <2> QED BY <1>2, <1>3, <1>4, <2>2, SentKeeps
<1>5. CASE ~me.authenticated
  <2>1. req' = req
    BY <1>2, <1>5
  <2>2. TypeOK'
    BY <1>2, <1>3, <2>1 DEF TypeOK
  <2>3. StatesSpent'
    BY <1>2, <2>1 DEF StatesSpent
  <2>4. SessionsFit'
    BY <1>2, <2>1 DEF SessionsFit, Dead, Live
  <2> QED BY <2>2, <2>3, <2>4
<1> QED BY <1>4, <1>5

LEMMA WriteKeeps ==
  ASSUME IInv, NEW t \in Tabs, Write(t) \/ SignOut(t)
  PROVE  IInv'
<1> USE DEF IInv
<1>1. PICK kind \in {"write", "logout"} : req' = [req EXCEPT ![t] = Sent(kind, t)]
  BY DEF Write, SignOut
<1>2. cookie # 0 /\ UNCHANGED <<now, states, drawn, rows, login, cookie, page, faults>>
  BY DEF Write, SignOut
<1>3. /\ Sent(kind, t) \in Requests /\ Sent(kind, t).at = "lookup"
      /\ Sent(kind, t).sid = cookie /\ Sent(kind, t).late = Dead(cookie)
      /\ Sent(kind, t).kind = kind
  BY <1>1, <1>2, SentFacts
<1> QED BY <1>1, <1>2, <1>3, SentKeeps DEF TypeOK

LEMMA FindKeeps ==
  ASSUME IInv, NEW t \in Tabs, Find(t)
  PROVE  IInv'
<1> USE DEF IInv
<1> DEFINE r == [req[t] EXCEPT !.rec = rows[req[t].sid], !.at = "found"]
<1>1. /\ req[t].at = "lookup" /\ req[t] \in Requests
      /\ UNCHANGED <<now, states, drawn, rows, login, cookie, page, faults>>
  BY DEF Find, TypeOK
<1>2. req[t].sid \in Sessions /\ rows[req[t].sid] \in Rows
  BY <1>1 DEF SessionsFit, TypeOK
<1>3. req' = [req EXCEPT ![t] = r]
  BY DEF Find, TypeOK
<1>4. /\ r \in Requests /\ r.at = "found" /\ r.sid = req[t].sid /\ r.late = req[t].late
      /\ r.rec = rows[req[t].sid] /\ r.kind = req[t].kind
  BY <1>1, <1>2 DEF Requests, Ats
<1> HIDE DEF r
<1>5. /\ req' \in [Tabs -> Requests] /\ req'[t] = r
      /\ \A u \in Tabs \ {t} : req'[u] = req[u]
  BY <1>3, <1>4, Assigned
<1>6. TypeOK'
  BY <1>1, <1>5 DEF TypeOK
<1>7. StatesSpent'
  BY <1>1, <1>4, <1>5 DEF StatesSpent
<1>8. SessionsFit'
  BY <1>1, <1>2, <1>4, <1>5 DEF SessionsFit, Dead, Live
<1> QED BY <1>6, <1>7, <1>8

\* The steps of a request that ends or is no longer late, and what they do to the rows.
LEMMA StepsKeep ==
  ASSUME IInv, NEW t \in Tabs, NEW r \in Requests,
         req' = [req EXCEPT ![t] = r],
         r.at \notin {"insert", "lookup", "found"}, r.at # "idle" => r.sid \in Sessions, ~r.late,
         rows' \in [Sessions -> Rows],
         \A s \in Sessions : ~Live(rows[s]) => ~Live(rows'[s]),
         drawn' \in [states : Nat, tokens : Nat], drawn'.states = drawn.states,
         cookie' \in Sessions \cup {0}, faults' \in Nat,
         page' \in [Tabs -> [token : Nat, listed : BOOLEAN]],
         UNCHANGED <<now, states, login>>
  PROVE  IInv'
<1> USE DEF IInv
<1>1. /\ req' \in [Tabs -> Requests] /\ req'[t] = r
      /\ \A u \in Tabs \ {t} : req'[u] = req[u]
  BY Assigned
<1>2. TypeOK'
  BY <1>1 DEF TypeOK
<1> QED BY <1>1, <1>2, OneTab

LEMMA EndKeeps ==
  ASSUME IInv, NEW t \in Tabs, Refused(t) \/ (req' = [req EXCEPT ![t] = Idle] /\ page' = page),
         UNCHANGED <<now, states, drawn, login, cookie>>, faults' \in Nat,
         rows' \in [Sessions -> Rows],
         \A s \in Sessions : ~Live(rows[s]) => ~Live(rows'[s])
  PROVE  IInv'
<1> USE DEF IInv
<1>1. req' = [req EXCEPT ![t] = Idle]
  BY DEF Refused
<1>2. page' \in [Tabs -> [token : Nat, listed : BOOLEAN]]
  BY RefusedFacts DEF TypeOK
<1> QED BY <1>1, <1>2, NoRowFacts, StepsKeep DEF TypeOK

\* Three fields of a request that change at once.
LEMMA Flattened ==
  ASSUME TypeOK, NEW t \in Tabs, NEW at, NEW rec
  PROVE  [req EXCEPT ![t].at = at, ![t].rec = rec, ![t].token = 0]
           = [req EXCEPT ![t] = [req[t] EXCEPT !.at = at, !.rec = rec, !.token = 0]]
BY DEF TypeOK

LEMMA MiddlewaresKeep ==
  ASSUME IInv, NEW t \in Tabs, NEW botIn \in BOOLEAN, Middlewares(t, botIn)
  PROVE  IInv'
<1> USE DEF IInv
<1>1. /\ req[t].at = "found" /\ req[t] \in Requests /\ req[t].sid \in Sessions
      /\ UNCHANGED <<now, states, drawn, rows, login, cookie, faults>>
  BY DEF Middlewares, TypeOK, SessionsFit
<1>2. CASE Refused(t)
  BY <1>1, <1>2, EndKeeps DEF TypeOK
<1>3. CASE ~Refused(t)
  <2>1. /\ SessionAuth(t) /\ UNCHANGED page
        /\ req' = [req EXCEPT ![t].at = CASE req[t].kind = "logout" -> "again"
                                          [] req[t].kind = "csrf"  -> "csrf"
                                          [] req[t].kind = "write" -> "running",
                              ![t].rec = IF req[t].kind = "csrf" THEN @ ELSE NoRow,
                              ![t].token = 0]
    BY <1>3 DEF Middlewares
  <2>2. ~req[t].late
    BY <1>1, <2>1 DEF SessionAuth, SessionRecord, SessionsFit
  <2>3. req[t].kind \in {"logout", "csrf", "write"}
    BY <1>1 DEF SessionsFit
  <2> DEFINE next == CASE req[t].kind = "logout" -> "again"
                       [] req[t].kind = "csrf"  -> "csrf"
                       [] req[t].kind = "write" -> "running"
             rec == IF req[t].kind = "csrf" THEN req[t].rec ELSE NoRow
             r == [req[t] EXCEPT !.at = next, !.rec = rec, !.token = 0]
  <2>4. next \in {"again", "csrf", "running"}
    BY <2>3
  <2>5. rec \in Rows
    BY <1>1, NoRowFacts DEF Requests
  <2>6. req' = [req EXCEPT ![t] = r]
    <3>1. req' = [req EXCEPT ![t].at = next, ![t].rec = IF req[t].kind = "csrf" THEN @ ELSE NoRow,
                             ![t].token = 0]
      BY <2>1
    <3> HIDE DEF next
    <3>2. req' = [req EXCEPT ![t].at = next, ![t].rec = rec, ![t].token = 0]
      BY <3>1 DEF TypeOK
    <3> HIDE DEF rec
    <3> QED BY <3>2, Flattened
  <2> HIDE DEF next, rec
  <2>7. r \in Requests /\ r.at = next /\ r.sid = req[t].sid /\ ~r.late
    BY <1>1, <2>2, <2>4, <2>5 DEF Requests, Ats
  <2> HIDE DEF r
  <2> QED BY <1>1, <2>1, <2>4, <2>6, <2>7, StepsKeep DEF TypeOK
<1> QED BY <1>2, <1>3

\* Past the middlewares a request is not late and carries a session.
LEMMA Admitted ==
  ASSUME IInv, NEW t \in Tabs, req[t].at \notin {"idle", "insert", "lookup", "found"}
  PROVE  ~req[t].late /\ req[t].sid \in Sessions /\ req[t] \in Requests /\ req[t].rec \in Rows
BY DEF IInv, TypeOK, SessionsFit, Requests

LEMMA CsrfKeeps ==
  ASSUME IInv, NEW t \in Tabs, Csrf(t)
  PROVE  IInv'
<1> USE DEF IInv
<1>1. /\ req[t].at = "csrf" /\ UNCHANGED <<now, states, rows, login, cookie, page, faults>>
      /\ ~req[t].late /\ req[t].sid \in Sessions /\ req[t] \in Requests /\ req[t].rec \in Rows
  BY Admitted DEF Csrf
<1>2. CASE ReadToken(req[t].rec) # 0
  <2> DEFINE token == ReadToken(req[t].rec)
             r == [req[t] EXCEPT !.token = token, !.at = "answer", !.rec = NoRow]
  <2>1. token \in Nat
    BY <1>1 DEF ReadToken, Rows
  <2>2. drawn' = drawn /\ req' = [req EXCEPT ![t] = r]
    BY <1>2 DEF Csrf, TypeOK
  <2> HIDE DEF token
  <2>3. r \in Requests /\ r.at = "answer" /\ r.sid = req[t].sid /\ ~r.late
    BY <1>1, <2>1, NoRowFacts DEF Requests, Ats
  <2> HIDE DEF r
  <2> QED BY <1>1, <2>2, <2>3, StepsKeep DEF TypeOK
<1>3. CASE ~(ReadToken(req[t].rec) # 0)
  <2> DEFINE rec == WithToken(req[t].rec, drawn'.tokens)
             r == [req[t] EXCEPT !.rec = rec, !.at = "store"]
  <2>1. /\ drawn' = [drawn EXCEPT !.tokens = @ + 1] /\ req' = [req EXCEPT ![t] = r]
    BY <1>3 DEF Csrf, TypeOK
  <2>2. drawn' \in [states : Nat, tokens : Nat] /\ drawn'.states = drawn.states
    BY <2>1 DEF TypeOK
  <2>3. rec \in Rows
    BY <1>1, <2>2 DEF WithToken, Rows
  <2> HIDE DEF rec
  <2>4. r \in Requests /\ r.at = "store" /\ r.sid = req[t].sid /\ ~r.late
    BY <1>1, <2>3 DEF Requests, Ats
  <2> HIDE DEF r
  <2> QED BY <1>1, <2>1, <2>2, <2>4, StepsKeep DEF TypeOK
<1> QED BY <1>2, <1>3

LEMMA StoreKeeps ==
  ASSUME IInv, NEW t \in Tabs, StoreToken(t)
  PROVE  IInv'
<1> USE DEF IInv
<1>1. /\ req[t].at = "store" /\ UNCHANGED <<now, states, drawn, login, cookie, faults>>
      /\ ~req[t].late /\ req[t].sid \in Sessions /\ req[t] \in Requests /\ req[t].rec \in Rows
      /\ rows' = UpdateMetadata(req[t].sid, req[t].rec)
  BY Admitted DEF StoreToken
<1>2. rows' \in [Sessions -> Rows] /\ \A s \in Sessions : ~Live(rows[s]) => ~Live(rows'[s])
  BY <1>1, UpdateFacts DEF TypeOK
<1>3. CASE Refused(t)
  BY <1>1, <1>2, <1>3, EndKeeps DEF TypeOK
<1>4. CASE ~Refused(t)
  <2> DEFINE r == [req[t] EXCEPT !.token = req[t].rec.token, !.at = "answer", !.rec = NoRow]
  <2>1. page' = page /\ req' = [req EXCEPT ![t] = r]
    BY <1>4 DEF StoreToken, TypeOK
  <2>2. r \in Requests /\ r.at = "answer" /\ r.sid = req[t].sid /\ ~r.late
    BY <1>1, NoRowFacts DEF Requests, Ats, Rows
  <2> HIDE DEF r
  <2> QED BY <1>1, <1>2, <2>1, <2>2, StepsKeep DEF TypeOK
<1> QED BY <1>3, <1>4

LEMMA LogoutKeeps ==
  ASSUME IInv, NEW t \in Tabs, LogoutReads(t) \/ StripToken(t) \/ RevokeSession(t)
  PROVE  IInv'
<1> USE DEF IInv
<1>1. /\ req[t].at \in {"again", "strip", "revoke"}
      /\ UNCHANGED <<now, states, drawn, login, cookie, page, faults>>
  BY DEF LogoutReads, StripToken, RevokeSession
<1>2. /\ ~req[t].late /\ req[t].sid \in Sessions /\ req[t] \in Requests /\ req[t].rec \in Rows
      /\ rows[req[t].sid] \in Rows
  BY <1>1, Admitted DEF TypeOK
<1>3. CASE LogoutReads(t)
  <2>1. PICK rec \in Rows, at \in {"strip", "revoke"} :
          req' = [req EXCEPT ![t] = [req[t] EXCEPT !.at = at, !.rec = rec]]
    <3>1. CASE SessionRecord(rows[req[t].sid])
      <4>1. req' = [req EXCEPT ![t] = [req[t] EXCEPT !.at = "strip", !.rec = rows[req[t].sid]]]
        BY <1>3, <3>1 DEF LogoutReads, TypeOK
      <4> QED BY <1>2, <4>1
    <3>2. CASE ~SessionRecord(rows[req[t].sid])
      <4>1. req' = [req EXCEPT ![t] = [req[t] EXCEPT !.at = "revoke", !.rec = req[t].rec]]
        <5>1. req' = [req EXCEPT ![t] = [req[t] EXCEPT !.at = "revoke"]]
          BY <1>3, <3>2 DEF LogoutReads, TypeOK
        <5>2. [req[t] EXCEPT !.at = "revoke", !.rec = req[t].rec]
                = [req[t] EXCEPT !.at = "revoke"]
          BY <1>2 DEF Requests
        <5> QED BY <5>1, <5>2
      <4> QED BY <1>2, <4>1
    <3> QED BY <3>1, <3>2
  <2> DEFINE r == [req[t] EXCEPT !.at = at, !.rec = rec]
  <2>2. r \in Requests /\ r.at = at /\ r.sid = req[t].sid /\ ~r.late
    BY <1>2 DEF Requests, Ats
  <2>3. rows' = rows /\ req' = [req EXCEPT ![t] = r]
    BY <1>3, <2>1 DEF LogoutReads
  <2> HIDE DEF r
  <2> QED BY <1>1, <1>2, <2>2, <2>3, StepsKeep DEF TypeOK
<1>4. CASE StripToken(t)
  <2> DEFINE rec == WithToken(req[t].rec, 0)
             r == [req[t] EXCEPT !.at = "revoke", !.rec = NoRow]
  <2>1. rec \in Rows
    BY <1>2 DEF WithToken, Rows
  <2>2. rows' = UpdateMetadata(req[t].sid, rec) /\ req' = [req EXCEPT ![t] = r]
    BY <1>4 DEF StripToken, TypeOK
  <2> HIDE DEF rec
  <2>3. rows' \in [Sessions -> Rows] /\ \A s \in Sessions : ~Live(rows[s]) => ~Live(rows'[s])
    BY <1>2, <2>1, <2>2, UpdateFacts DEF TypeOK
  <2>4. r \in Requests /\ r.at = "revoke" /\ r.sid = req[t].sid /\ ~r.late
    BY <1>2, NoRowFacts DEF Requests, Ats
  <2> HIDE DEF r
  <2> QED BY <1>1, <1>2, <2>2, <2>3, <2>4, StepsKeep DEF TypeOK
<1>5. CASE RevokeSession(t)
  <2> DEFINE r == [req[t] EXCEPT !.at = "answer"]
  <2>1. rows' = Revoke(req[t].sid) /\ req' = [req EXCEPT ![t] = r]
    BY <1>5 DEF RevokeSession, TypeOK
  <2>2. rows' \in [Sessions -> Rows] /\ \A s \in Sessions : ~Live(rows[s]) => ~Live(rows'[s])
    BY <1>2, <2>1, RevokeFacts DEF TypeOK
  <2>3. r \in Requests /\ r.at = "answer" /\ r.sid = req[t].sid /\ ~r.late
    BY <1>2 DEF Requests, Ats
  <2> HIDE DEF r
  <2> QED BY <1>1, <1>2, <2>1, <2>2, <2>3, StepsKeep DEF TypeOK
<1> QED BY <1>3, <1>4, <1>5

LEMMA AnswerKeeps ==
  ASSUME IInv, NEW t \in Tabs, Answer(t)
  PROVE  IInv'
<1> USE DEF IInv
<1>1. /\ req[t].at = "answer" /\ UNCHANGED <<now, states, drawn, rows, login, faults>>
      /\ req' = [req EXCEPT ![t] = Idle]
      /\ req[t].sid \in Sessions /\ req[t] \in Requests
  BY Admitted DEF Answer
<1>2. cookie' \in Sessions \cup {0}
  BY <1>1 DEF Answer, TypeOK
<1>3. page' \in [Tabs -> [token : Nat, listed : BOOLEAN]]
  <2>1. req[t].token \in Nat
    BY <1>1 DEF Requests
  <2> QED BY <2>1 DEF Answer, TypeOK
<1> QED BY <1>1, <1>2, <1>3, NoRowFacts, StepsKeep DEF TypeOK

-----------------------------------------------------------------------------
(* The invariant *)

LEMMA Initially == Init => IInv
<1> SUFFICES ASSUME Init PROVE IInv
  OBVIOUS
<1>1. TypeOK
  BY NoRowFacts, SessionsAssumption DEF Init, TypeOK
<1> QED BY <1>1, NoRowFacts DEF Init, IInv, StatesSpent, SessionsFit

\* Cleanup, a restart and the passing of time.
LEMMA EnvironmentKeeps ==
  ASSUME IInv, Cleanup \/ Restart \/ Tick
  PROVE  IInv'
<1> USE DEF IInv
<1>1. CASE Cleanup
  <2>1. /\ UNCHANGED <<now, states, drawn, login, cookie, page, req, faults>>
        /\ rows' = [s \in Sessions |-> IF Deletable(rows[s]) THEN NoRow ELSE rows[s]]
    BY <1>1 DEF Cleanup
  <2>2. rows' \in [Sessions -> Rows] /\ \A s \in Sessions : Dead(s) => Dead(s)'
    BY <2>1, NoRowFacts DEF TypeOK, Dead, Live
  <2>3. TypeOK'
    BY <2>1, <2>2 DEF TypeOK
  <2>4. now <= now' /\ DOMAIN states' \subseteq DOMAIN states
    BY <2>1 DEF TypeOK
  <2> QED BY <2>1, <2>2, <2>3, <2>4, Harmless DEF SessionsFit
<1>2. CASE Restart
  <2>1. /\ UNCHANGED <<now, drawn, rows, login, cookie>> /\ DOMAIN states' = {}
        /\ faults' = faults + 1
        /\ req' = [t \in Tabs |-> Idle]
        /\ page' = [t \in Tabs |-> IF req[t].kind = "logout" THEN [page[t] EXCEPT !.token = 0]
                                   ELSE page[t]]
    BY <1>2 DEF Restart
  <2>2. page' \in [Tabs -> [token : Nat, listed : BOOLEAN]]
    BY <2>1 DEF TypeOK
  <2>3. TypeOK'
    BY <2>1, <2>2, NoRowFacts DEF TypeOK
  <2>4. StatesSpent'
    BY <2>1, NoRowFacts DEF StatesSpent
  <2>5. SessionsFit'
    BY <2>1, NoRowFacts DEF SessionsFit
  <2> QED BY <2>3, <2>4, <2>5
<1>3. CASE Tick
  <2>1. now' = now + 1 /\ UNCHANGED <<states, drawn, rows, login, cookie, page, req, faults>>
    BY <1>3 DEF Tick
  <2>2. TypeOK' /\ now <= now'
    BY <2>1 DEF TypeOK
  <2>3. \A s \in Sessions : Dead(s) => Dead(s)'
    <3>1. \A s \in Sessions : rows[s].until \in Nat
      BY DEF TypeOK, Rows
    <3> QED BY <2>1, <2>2, <3>1 DEF Dead, Live, TypeOK
  <2> QED BY <2>1, <2>2, <2>3, Harmless DEF SessionsFit
<1> QED BY <1>1, <1>2, <1>3

LEMMA StepKeeps ==
  ASSUME IInv, [Next]_vars
  PROVE  IInv'
<1>1. CASE UNCHANGED vars
  BY <1>1 DEF vars, IInv, TypeOK, StatesSpent, SessionsFit, Dead, Live
<1>2. CASE Cleanup \/ Restart \/ Tick
  BY <1>2, EnvironmentKeeps
<1>3. ASSUME NEW t \in Tabs, CodeRefused(t) \/ WriteEnds(t) \/ QueryFails(t) PROVE IInv'
  <2>1. /\ UNCHANGED <<now, states, drawn, rows, login, cookie>> /\ faults' \in Nat
        /\ Refused(t) \/ (req' = [req EXCEPT ![t] = Idle] /\ page' = page)
    BY <1>3 DEF CodeRefused, WriteEnds, QueryFails, IInv, TypeOK
  <2> QED BY <2>1, EndKeeps DEF IInv, TypeOK
<1>4. ASSUME NEW t \in Tabs, Steps(t) PROVE IInv'
  BY <1>3, <1>4, CreateKeeps, FindKeeps, MiddlewaresKeep, CsrfKeeps, StoreKeeps, LogoutKeeps,
     AnswerKeeps DEF Steps
<1> QED BY <1>1, <1>2, <1>3, <1>4, LoginKeeps, WriteKeeps, LoadKeeps, CallbackKeeps DEF Next

\* The invariant of every behaviour.
THEOREM Invariant == Spec => []IInv
<1>1. Init => IInv
  BY Initially
<1>2. IInv /\ [Next]_vars => IInv'
  BY StepKeeps
<1> QED BY <1>1, <1>2, PTL DEF Spec

-----------------------------------------------------------------------------
(* Theorem *)

\* However often a callback is loaded again, and whatever fails or restarts, a login
\* makes one session; and no write is handled that was sent for a session already dead
\* (OAuthStateService.consumeState, createSessionAuthMiddleware).
THEOREM OneSession == Spec => []OneSessionPerLogin
<1>1. IInv => OneSessionPerLogin
  BY DEF IInv, StatesSpent, SessionsFit, OneSessionPerLogin
<1> QED BY <1>1, Invariant, PTL
-----------------------------------------------------------------------------
(* The metadata *)

\* A row belongs to a login, and the first token of a login is none drawn later.
RowsKnown ==
  \A s \in Sessions :
    /\ rows[s] # NoRow => login[s].state # 0
    /\ login[s].state # 0 => login[s].token # 0 /\ login[s].token <= drawn.tokens

\* A copy of row s that a request carries fits the row: it names its end and its guilds, and
\* has lost the first token only if the row has, too.  A copy to be stored has a token drawn
\* since; it was made because the row had lost its first token or is past its end.
CopyFits(at, rec, s) ==
  /\ rec.until = rows[s].until /\ rec.guilds = rows[s].guilds
  /\ at \in {"found", "csrf"} /\ rows[s].token = login[s].token => rec.token = login[s].token
  /\ at = "store" => /\ rec.token # login[s].token
                     /\ rows[s].token = login[s].token => rows[s].until <= now

CopiesFit ==
  \A t \in Tabs :
    /\ req[t].at \in {"csrf", "store", "strip"} => req[t].rec # NoRow
    /\ req[t].at \in {"found", "csrf", "store", "strip"} /\ req[t].rec # NoRow =>
         /\ login[req[t].sid].state # 0
         /\ rows[req[t].sid] # NoRow => CopyFits(req[t].at, req[t].rec, req[t].sid)

MetaInv == RowsKnown /\ CopiesFit

-----------------------------------------------------------------------------
(* What a step does to the rows *)

\* Row s may have got another token, one it did not begin with; at its end or from a logout,
\* if it had the first one till now.
Retoken(s) ==
  rows'[s] # NoRow =>
    /\ rows[s] # NoRow /\ rows'[s].until = rows[s].until /\ rows'[s].guilds = rows[s].guilds
    /\ \/ rows'[s].token = rows[s].token
       \/ /\ rows'[s].token # login[s].token
          /\ \/ rows[s].token = login[s].token => rows[s].until <= now
             \/ \E t \in Tabs : req[t].at = "strip" /\ req[t].sid = s /\ rows'[s].token = 0

\* The metadata of row s are rewritten from a copy that fits.
LEMMA Rewritten ==
  ASSUME rows \in [Sessions -> Rows], NEW s \in Sessions, NEW rec \in Rows,
         rows' = UpdateMetadata(s, rec),
         rows[s] # NoRow => /\ rec.guilds = rows[s].guilds /\ rec.token # login[s].token
                            /\ \/ rows[s].token = login[s].token => rows[s].until <= now
                               \/ \E t \in Tabs : req[t].at = "strip" /\ req[t].sid = s /\ rec.token = 0
  PROVE  \A r \in Sessions : Retoken(r)
<1>1. CASE rows[s] = NoRow \/ rows[s].revoked
  BY <1>1 DEF UpdateMetadata, Retoken
<1>2. CASE ~(rows[s] = NoRow \/ rows[s].revoked)
  <2> DEFINE new == [rows[s] EXCEPT !.token = rec.token, !.guilds = rec.guilds]
  <2>1. rows' = [rows EXCEPT ![s] = new]
    BY <1>2 DEF UpdateMetadata, Rows
  <2>2. new.until = rows[s].until /\ new.guilds = rec.guilds /\ new.token = rec.token
    BY DEF Rows
  <2> HIDE DEF new
  <2>3. \A r \in Sessions : rows'[r] = IF r = s THEN new ELSE rows[r]
    BY <2>1
  <2> QED BY <1>2, <2>2, <2>3 DEF Retoken
<1> QED BY <1>1, <1>2

\* A step that inserts no row.
LEMMA RowsMove ==
  ASSUME IInv, MetaInv, [Next]_vars
  PROVE  (\A s \in Sessions : Retoken(s)) \/ \E t \in Tabs, guilds \in Rights : CreateSession(t, guilds)
<1> USE DEF IInv
<1>1. CASE rows' = rows
  BY <1>1 DEF Retoken
<1>2. ASSUME NEW t \in Tabs, StoreToken(t) PROVE \A s \in Sessions : Retoken(s)
  <2>1. /\ req[t].at = "store" /\ rows' = UpdateMetadata(req[t].sid, req[t].rec)
        /\ req[t].sid \in Sessions /\ req[t].rec \in Rows /\ rows \in [Sessions -> Rows]
    BY <1>2, Admitted DEF StoreToken, TypeOK
  <2>2. rows[req[t].sid] # NoRow => CopyFits("store", req[t].rec, req[t].sid)
    BY <2>1 DEF MetaInv, CopiesFit
  <2> QED BY <2>1, <2>2, Rewritten DEF CopyFits
<1>3. ASSUME NEW t \in Tabs, StripToken(t) PROVE \A s \in Sessions : Retoken(s)
  <2>1. /\ req[t].at = "strip" /\ rows' = UpdateMetadata(req[t].sid, WithToken(req[t].rec, 0))
        /\ req[t].sid \in Sessions /\ req[t].rec \in Rows /\ rows \in [Sessions -> Rows]
    BY <1>3, Admitted DEF StripToken, TypeOK
  <2>2. /\ rows[req[t].sid] # NoRow => CopyFits("strip", req[t].rec, req[t].sid)
        /\ login[req[t].sid].token # 0
    BY <2>1 DEF MetaInv, CopiesFit, RowsKnown
  <2> DEFINE rec == WithToken(req[t].rec, 0)
  <2>3. rec \in Rows /\ rec.guilds = req[t].rec.guilds /\ rec.token = 0
    BY <2>1 DEF WithToken, Rows
  <2> HIDE DEF rec
  <2>4. rows' = UpdateMetadata(req[t].sid, rec)
    BY <2>1 DEF rec
  <2> QED BY <2>1, <2>2, <2>3, <2>4, Rewritten DEF CopyFits
<1>4. ASSUME NEW t \in Tabs, RevokeSession(t) PROVE \A s \in Sessions : Retoken(s)
  <2>1. rows' = Revoke(req[t].sid) /\ req[t].sid \in Sessions /\ rows \in [Sessions -> Rows]
    BY <1>4, Admitted DEF RevokeSession, TypeOK
  <2>2. \A s \in Sessions : rows'[s] # rows[s] =>
          rows[s] # NoRow /\ rows'[s] = [rows[s] EXCEPT !.revoked = TRUE]
    BY <2>1 DEF Revoke
  <2>3. \A s \in Sessions : rows'[s] # rows[s] =>
          /\ rows[s] # NoRow /\ rows'[s].until = rows[s].until
          /\ rows'[s].guilds = rows[s].guilds /\ rows'[s].token = rows[s].token
    BY <2>1, <2>2 DEF Rows
  <2> QED BY <2>3 DEF Retoken
<1>5. CASE Cleanup
  <2>1. \A s \in Sessions : rows'[s] \in {rows[s], NoRow}
    BY <1>5 DEF Cleanup
  <2> QED BY <2>1 DEF Retoken
<1>6. CASE \E t \in Tabs, guilds \in Rights : CreateSession(t, guilds)
  BY <1>6
<1>7. ASSUME NEW t \in Tabs, Steps(t)
      PROVE  \/ rows' = rows \/ StoreToken(t) \/ StripToken(t) \/ RevokeSession(t)
             \/ \E guilds \in Rights : CreateSession(t, guilds)
  BY <1>7 DEF Steps, CodeRefused, Find, Middlewares, WriteEnds, Csrf, LogoutReads, Answer
<1>8. CASE UNCHANGED vars
  BY <1>1, <1>8 DEF vars
<1>9. ASSUME NEW t \in Tabs,
             \/ Login(t) \/ Write(t) \/ SignOut(t) \/ QueryFails(t)
             \/ \E botIn \in BOOLEAN : Load(t, botIn) \/ \E o \in 1 .. MaxLogins : Callback(t, o)
      PROVE rows' = rows
  <2>1. ASSUME NEW botIn, Load(t, botIn) PROVE rows' = rows
    BY <2>1 DEF Load
  <2>2. ASSUME NEW o, Callback(t, o) PROVE rows' = rows
    BY <2>2 DEF Callback
  <2>3. CASE Login(t) \/ Write(t) \/ SignOut(t) \/ QueryFails(t)
    BY <2>3 DEF Login, Write, SignOut, QueryFails
  <2> QED BY <1>9, <2>1, <2>2, <2>3
<1>10. CASE Restart \/ Tick
  BY <1>1, <1>10 DEF Restart, Tick
<1>11. ASSUME NEW t \in Tabs, Steps(t)
       PROVE  (\A s \in Sessions : Retoken(s)) \/ \E u \in Tabs, guilds \in Rights : CreateSession(u, guilds)
  BY <1>1, <1>2, <1>3, <1>4, <1>6, <1>7, <1>11
<1>12. CASE Next
  <2>1. CASE \E t \in Tabs : Steps(t)
    BY <1>11, <2>1
  <2>2. CASE Cleanup \/ Restart \/ Tick
    BY <1>5, <1>10, <2>2
  <2>3. CASE ~(Cleanup \/ Restart \/ Tick) /\ ~\E t \in Tabs : Steps(t)
    BY <1>1, <1>9, <1>12, <2>3 DEF Next
  <2> QED BY <2>1, <2>2, <2>3
<1> QED BY <1>8, <1>12

-----------------------------------------------------------------------------
(* The metadata stay *)

\* A step that inserts no row keeps the copies of the requests that go on as before, or with
\* a copy that fits.
LEMMA CopiesStay ==
  ASSUME IInv, MetaInv, IInv', UNCHANGED login, drawn.tokens <= drawn'.tokens, now <= now',
         \A s \in Sessions : Retoken(s),
         \A t \in Tabs :
           \/ req'[t] = req[t]
           \/ req'[t].at \notin {"found", "csrf", "store", "strip"}
           \/ /\ req'[t].at # "found" => req'[t].rec # NoRow
              /\ req'[t].sid = req[t].sid
              /\ req'[t].rec # NoRow =>
                   /\ login[req[t].sid].state # 0
                   /\ rows[req[t].sid] # NoRow => CopyFits(req'[t].at, req'[t].rec, req[t].sid)
  PROVE  MetaInv'
<1>1. /\ drawn.tokens \in Nat /\ drawn'.tokens \in Nat /\ now \in Nat /\ now' \in Nat
      /\ \A s \in Sessions : /\ login[s].token \in Nat /\ rows[s] \in Rows /\ rows[s].until \in Nat
                             /\ login'[s] = login[s]
  BY DEF IInv, TypeOK, Rows
<1>2. RowsKnown'
  BY <1>1 DEF MetaInv, RowsKnown, Retoken
<1>3. ASSUME NEW s \in Sessions, rows'[s] # NoRow
      PROVE  /\ rows[s] # NoRow /\ rows'[s].until = rows[s].until /\ rows'[s].guilds = rows[s].guilds
             /\ rows'[s].token = login[s].token => rows[s].token = login[s].token
  BY <1>3 DEF Retoken
<1>4. ASSUME NEW s \in Sessions, NEW at, NEW rec, rows'[s] # NoRow,
             rows[s] # NoRow => CopyFits(at, rec, s)
      PROVE  CopyFits(at, rec, s)'
  <2>1. rows[s].until <= now => rows[s].until <= now'
    BY <1>1
  <2> QED BY <1>1, <1>3, <1>4, <2>1 DEF CopyFits
<1>5. ASSUME NEW t \in Tabs
      PROVE  /\ req'[t].at \in {"csrf", "store", "strip"} => req'[t].rec # NoRow
             /\ req'[t].at \in {"found", "csrf", "store", "strip"} /\ req'[t].rec # NoRow =>
                  /\ login'[req'[t].sid].state # 0
                  /\ rows'[req'[t].sid] # NoRow => CopyFits(req[t].at, req[t].rec, req[t].sid)'
  <2>1. req'[t].at \notin {"idle", "insert"} => req'[t].sid \in Sessions
    BY DEF IInv, SessionsFit
  <2>2. CASE req'[t] = req[t]
    BY <1>1, <1>4, <2>1, <2>2 DEF MetaInv, CopiesFit
  <2>3. CASE req'[t].at \notin {"found", "csrf", "store", "strip"}
    BY <2>3
  <2>4. CASE /\ req'[t].at # "found" => req'[t].rec # NoRow
             /\ req'[t].sid = req[t].sid
             /\ req'[t].rec # NoRow =>
                  /\ login[req[t].sid].state # 0
                  /\ rows[req[t].sid] # NoRow => CopyFits(req'[t].at, req'[t].rec, req[t].sid)
    BY <1>1, <1>4, <2>1, <2>4
  <2> QED BY <2>2, <2>3, <2>4
<1>6. CopiesFit'
  BY <1>5 DEF CopiesFit
<1> QED BY <1>2, <1>6 DEF MetaInv

\* Steps that leave the rows to Retoken, and what they do to the copies.
LEMMA StoresStay ==
  ASSUME IInv, MetaInv, IInv', NEW t \in Tabs, \A s \in Sessions : Retoken(s),
         StoreToken(t) \/ StripToken(t) \/ RevokeSession(t) \/ LogoutReads(t) \/ Find(t)
  PROVE  MetaInv'
<1>1. /\ UNCHANGED <<login, drawn, now>> /\ drawn.tokens <= drawn'.tokens /\ now <= now'
      /\ \A u \in Tabs \ {t} : req'[u] = req[u]
  BY DEF StoreToken, StripToken, RevokeSession, LogoutReads, Find, Refused, IInv, TypeOK
<1>2. req[t] \in Requests /\ req[t].sid \in Sessions /\ rows[req[t].sid] \in Rows
  BY DEF StoreToken, StripToken, RevokeSession, LogoutReads, Find, IInv, TypeOK, SessionsFit
<1>3. CASE StoreToken(t) \/ StripToken(t) \/ RevokeSession(t)
  <2>1. req'[t].at \in {"idle", "answer", "revoke"}
    BY <1>2, <1>3, NoRowFacts DEF StoreToken, StripToken, RevokeSession, Refused, IInv, TypeOK, Requests
  <2> QED BY <1>1, <2>1, CopiesStay
<1>4. CASE LogoutReads(t) \/ Find(t)
  <2>1. /\ req'[t].sid = req[t].sid /\ rows' = rows
        /\ \/ req'[t].at = "revoke"
           \/ req'[t].at = "strip" /\ req'[t].rec = rows[req[t].sid] /\ rows[req[t].sid] # NoRow
           \/ req'[t].at = "found" /\ req'[t].rec = rows[req[t].sid]
    BY <1>2, <1>4 DEF LogoutReads, Find, IInv, TypeOK, Requests, SessionRecord, Live
  <2>2. req'[t].rec # NoRow /\ req'[t].at \in {"strip", "found"} =>
          /\ login[req[t].sid].state # 0
          /\ CopyFits(req'[t].at, req'[t].rec, req[t].sid)
    BY <1>2, <2>1 DEF MetaInv, RowsKnown, CopyFits
  <2> QED BY <1>1, <2>1, <2>2, CopiesStay
<1> QED BY <1>3, <1>4

LEMMA MiddlewaresStay ==
  ASSUME IInv, MetaInv, IInv', NEW t \in Tabs, NEW botIn \in BOOLEAN, \A s \in Sessions : Retoken(s),
         Middlewares(t, botIn)
  PROVE  MetaInv'
<1>1. /\ UNCHANGED <<login, drawn, now, rows>> /\ drawn.tokens <= drawn'.tokens /\ now <= now'
      /\ \A u \in Tabs \ {t} : req'[u] = req[u]
      /\ req[t].at = "found" /\ req[t] \in Requests /\ req[t].sid \in Sessions
      /\ req[t].kind \in {"csrf", "write", "logout"}
  BY DEF Middlewares, Refused, IInv, TypeOK, SessionsFit
<1>2. CASE Refused(t)
  <2>1. req'[t].at = "idle"
    BY <1>2, RefusedFacts, NoRowFacts DEF IInv
  <2> QED BY <1>1, <2>1, CopiesStay
<1>3. CASE ~Refused(t)
  <2>1. SessionAuth(t) /\ req'[t].sid = req[t].sid
        /\ req'[t].at = (CASE req[t].kind = "logout" -> "again" [] req[t].kind = "csrf" -> "csrf"
                           [] req[t].kind = "write" -> "running")
        /\ req'[t].rec = (IF req[t].kind = "csrf" THEN req[t].rec ELSE NoRow)
    BY <1>1, <1>3 DEF Middlewares, IInv, TypeOK, Requests
  <2>2. CASE req[t].kind = "csrf"
    <3>1. req'[t].at = "csrf" /\ req'[t].rec = req[t].rec /\ req[t].rec # NoRow
      BY <2>1, <2>2 DEF SessionAuth, SessionRecord, Live
    <3>2. /\ login[req[t].sid].state # 0
          /\ rows[req[t].sid] # NoRow => CopyFits("found", req[t].rec, req[t].sid)
      BY <1>1, <3>1 DEF MetaInv, CopiesFit
    <3>3. rows[req[t].sid] # NoRow => CopyFits("csrf", req[t].rec, req[t].sid)
      BY <3>2 DEF CopyFits
    <3> QED BY <1>1, <2>1, <3>1, <3>2, <3>3, CopiesStay
  <2>3. CASE req[t].kind \in {"write", "logout"}
    <3>1. req'[t].at \in {"again", "running"}
      BY <2>1, <2>3
    <3> QED BY <1>1, <3>1, CopiesStay
  <2> QED BY <1>1, <2>2, <2>3
<1> QED BY <1>2, <1>3

\* A new token is drawn when the copy has none that is still good.
LEMMA CsrfStays ==
  ASSUME IInv, MetaInv, IInv', NEW t \in Tabs, \A s \in Sessions : Retoken(s), Csrf(t)
  PROVE  MetaInv'
<1>1. /\ UNCHANGED <<login, now, rows>> /\ now <= now'
      /\ \A u \in Tabs \ {t} : req'[u] = req[u]
      /\ req[t].at = "csrf" /\ req[t] \in Requests /\ req[t].sid \in Sessions /\ req[t].rec \in Rows
      /\ drawn.tokens \in Nat /\ now \in Nat
  BY Admitted DEF Csrf, IInv, TypeOK
<1>2. CASE ReadToken(req[t].rec) # 0
  <2>1. drawn.tokens <= drawn'.tokens /\ req'[t].at = "answer"
    BY <1>1, <1>2 DEF Csrf, IInv, TypeOK, Requests
  <2> QED BY <1>1, <2>1, CopiesStay
<1>3. CASE ReadToken(req[t].rec) = 0
  <2> DEFINE rec == WithToken(req[t].rec, drawn'.tokens)
  <2>1. drawn'.tokens = drawn.tokens + 1
    BY <1>3 DEF Csrf, IInv, TypeOK
  <2>2. req'[t].at = "store" /\ req'[t].rec = rec /\ req'[t].sid = req[t].sid
    BY <1>1, <1>3 DEF Csrf, IInv, TypeOK, Requests
  <2>3. rec.token = drawn.tokens + 1 /\ rec.until = req[t].rec.until /\ rec.guilds = req[t].rec.guilds
    BY <1>1, <2>1 DEF WithToken, Rows
  <2> HIDE DEF rec
  <2>4. rec # NoRow
    BY <1>1, <2>3 DEF NoRow
  <2>5. /\ login[req[t].sid].state # 0
        /\ rows[req[t].sid] # NoRow => CopyFits("csrf", req[t].rec, req[t].sid)
    BY <1>1 DEF MetaInv, CopiesFit
  <2>6. /\ login[req[t].sid].token # 0 /\ login[req[t].sid].token <= drawn.tokens
        /\ login[req[t].sid].token \in Nat /\ rows[req[t].sid].until \in Nat
    BY <1>1, <2>5 DEF MetaInv, RowsKnown, IInv, TypeOK, Rows
  <2>7. req[t].rec.token = login[req[t].sid].token => req[t].rec.until <= now
    BY <1>1, <1>3, <2>6 DEF ReadToken, Rows
  <2>8. rows[req[t].sid] # NoRow => CopyFits("store", rec, req[t].sid)
    BY <1>1, <2>3, <2>5, <2>6, <2>7 DEF CopyFits
  <2>9. drawn.tokens <= drawn'.tokens
    BY <1>1, <2>1
  <2> QED BY <1>1, <2>2, <2>4, <2>5, <2>8, <2>9, CopiesStay
<1> QED BY <1>2, <1>3

\* A session that is made is no request's yet.
LEMMA CreateStays ==
  ASSUME IInv, MetaInv, IInv', NEW t \in Tabs, NEW guilds \in Rights, CreateSession(t, guilds)
  PROVE  MetaInv'
<1>1. PICK s \in Sessions :
        /\ FreshId(s)
        /\ drawn' = [drawn EXCEPT !.tokens = @ + 1]
        /\ rows' = Inserted(s, guilds, drawn'.tokens)
        /\ login' = [login EXCEPT ![s] = [state |-> req[t].sid, token |-> drawn'.tokens]]
        /\ req' = [req EXCEPT ![t] = [Idle EXCEPT !.kind = "callback", !.at = "answer", !.sid = s]]
  BY Zenon DEF CreateSession
<1>2. /\ req[t].at = "insert" /\ req[t].sid \in 1 .. drawn.states /\ now' = now
      /\ drawn.tokens \in Nat /\ drawn.states \in Nat
  BY DEF CreateSession, IInv, TypeOK, StatesSpent
<1>3. drawn'.tokens = drawn.tokens + 1
  BY <1>1 DEF IInv, TypeOK
<1>4. /\ login'[s] = [state |-> req[t].sid, token |-> drawn'.tokens] /\ login[s].state = 0
      /\ \A r \in Sessions \ {s} : login'[r] = login[r] /\ rows'[r] = rows[r]
  BY <1>1 DEF IInv, TypeOK, Inserted, FreshId
<1>5. \A r \in Sessions : login[r].token \in Nat
  BY DEF IInv, TypeOK
<1>6. RowsKnown'
  BY <1>2, <1>3, <1>4, <1>5 DEF MetaInv, RowsKnown
<1>7. req'[t].at = "answer" /\ \A u \in Tabs \ {t} : req'[u] = req[u]
  BY <1>1 DEF IInv, TypeOK, Idle
<1>8. ASSUME NEW u \in Tabs \ {t}, req[u].at \in {"found", "csrf", "store", "strip"}, req[u].rec # NoRow
      PROVE  /\ login'[req[u].sid].state # 0
             /\ rows'[req[u].sid] # NoRow => CopyFits(req[u].at, req[u].rec, req[u].sid)'
  <2>1. /\ req[u].sid \in Sessions /\ login[req[u].sid].state # 0
        /\ rows[req[u].sid] # NoRow => CopyFits(req[u].at, req[u].rec, req[u].sid)
    BY <1>8 DEF IInv, SessionsFit, MetaInv, CopiesFit
  <2>2. req[u].sid # s
    BY <1>4, <2>1
  <2> QED BY <1>2, <1>4, <1>7, <2>1, <2>2 DEF CopyFits
<1>9. CopiesFit'
  BY <1>7, <1>8 DEF CopiesFit, MetaInv
<1> QED BY <1>6, <1>9 DEF MetaInv

LEMMA MetaInitially == Init => MetaInv
BY NoRowFacts DEF Init, MetaInv, RowsKnown, CopiesFit, Idle

LEMMA MetaStep == IInv /\ MetaInv /\ [Next]_vars => MetaInv'
<1> SUFFICES ASSUME IInv, MetaInv, [Next]_vars PROVE MetaInv'
  OBVIOUS
<1>1. IInv'
  BY StepKeeps
<1>2. ASSUME NEW t \in Tabs, NEW guilds \in Rights, CreateSession(t, guilds) PROVE MetaInv'
  BY <1>1, <1>2, CreateStays
<1>3. CASE UNCHANGED vars
  BY <1>3 DEF vars, MetaInv, RowsKnown, CopiesFit, CopyFits
<1> SUFFICES ASSUME \A s \in Sessions : Retoken(s), Next PROVE MetaInv'
  BY <1>2, <1>3, RowsMove
<1>4. ASSUME NEW t \in Tabs, UNCHANGED <<login, drawn, now>>, \A u \in Tabs \ {t} : req'[u] = req[u],
             req'[t].at \in {"idle", "insert", "lookup", "answer"}
      PROVE  MetaInv'
  <2>1. drawn.tokens <= drawn'.tokens /\ now <= now'
    BY <1>4 DEF IInv, TypeOK
  <2> QED BY <1>1, <1>4, <2>1, CopiesStay
<1>5. ASSUME NEW t \in Tabs, CodeRefused(t) \/ WriteEnds(t) \/ QueryFails(t) \/ Answer(t) PROVE MetaInv'
  <2>1. /\ UNCHANGED <<login, drawn, now>> /\ \A u \in Tabs \ {t} : req'[u] = req[u]
        /\ req'[t].at = "idle"
    BY <1>5, NoRowFacts DEF CodeRefused, WriteEnds, QueryFails, Answer, Refused, IInv, TypeOK
  <2> QED BY <1>4, <2>1
<1>6. ASSUME NEW t \in Tabs, Write(t) \/ SignOut(t) PROVE MetaInv'
  <2>1. /\ UNCHANGED <<login, drawn, now>> /\ \A u \in Tabs \ {t} : req'[u] = req[u]
        /\ req'[t].at = "lookup"
    <3>1. PICK kind \in {"write", "logout"} : req' = [req EXCEPT ![t] = Sent(kind, t)]
      BY <1>6 DEF Write, SignOut
    <3>2. cookie # 0 /\ UNCHANGED <<login, drawn, now>>
      BY <1>6 DEF Write, SignOut
    <3>3. Sent(kind, t) \in Requests /\ Sent(kind, t).at = "lookup"
      BY <3>2, SentFacts DEF IInv
    <3> QED BY <3>1, <3>2, <3>3, Assigned DEF IInv
  <2> QED BY <1>4, <2>1
<1>7. ASSUME NEW t \in Tabs, NEW botIn \in BOOLEAN, Load(t, botIn) PROVE MetaInv'
  <2>1. /\ UNCHANGED <<login, drawn, now>> /\ \A u \in Tabs \ {t} : req'[u] = req[u]
        /\ req'[t].at \in {req[t].at, "lookup"} /\ req[t] = Idle
    BY <1>7 DEF Load, Sent, Idle, IInv, TypeOK
  <2> QED BY <1>4, <2>1, NoRowFacts
<1>8. ASSUME NEW t \in Tabs, NEW o \in 1 .. MaxLogins, Callback(t, o) PROVE MetaInv'
  <2>1. /\ UNCHANGED <<login, drawn, now>> /\ \A u \in Tabs \ {t} : req'[u] = req[u]
        /\ req'[t].at \in {req[t].at, "insert"} /\ req[t] = Idle
    BY <1>8 DEF Callback, Idle, IInv, TypeOK
  <2> QED BY <1>4, <2>1, NoRowFacts
<1>9. ASSUME NEW t \in Tabs, Login(t) PROVE MetaInv'
  <2>1. UNCHANGED <<login, now, req>> /\ drawn.tokens <= drawn'.tokens /\ now <= now'
    BY <1>9 DEF Login, IInv, TypeOK
  <2> QED BY <1>1, <2>1, CopiesStay
<1>10. CASE Cleanup \/ Tick
  <2>1. UNCHANGED <<login, req>> /\ drawn.tokens <= drawn'.tokens /\ now <= now'
    BY <1>10 DEF Cleanup, Tick, IInv, TypeOK
  <2> QED BY <1>1, <2>1, CopiesStay
<1>11. CASE Restart
  <2>1. /\ UNCHANGED login /\ drawn.tokens <= drawn'.tokens /\ now <= now'
        /\ \A t \in Tabs : req'[t].at = "idle"
    BY <1>11, NoRowFacts DEF Restart, IInv, TypeOK
  <2> QED BY <1>1, <2>1, CopiesStay
<1>12. ASSUME NEW t \in Tabs, Steps(t) PROVE MetaInv'
  <2>1. ASSUME NEW botIn \in BOOLEAN, Middlewares(t, botIn) PROVE MetaInv'
    BY <1>1, <2>1, MiddlewaresStay
  <2>2. CASE StoreToken(t) \/ StripToken(t) \/ RevokeSession(t) \/ LogoutReads(t) \/ Find(t)
    BY <1>1, <2>2, StoresStay
  <2> QED BY <1>1, <1>2, <1>5, <1>12, <2>1, <2>2, CsrfStays DEF Steps
<1> QED BY <1>5, <1>6, <1>7, <1>8, <1>9, <1>10, <1>11, <1>12 DEF Next

\* What a request of a live session wrote back was read from the row of that session since
\* its token last changed: the invariant behind MetadataStay.
THEOREM MetaInvariant == Spec => []MetaInv
BY Invariant, MetaInitially, MetaStep, PTL DEF Spec

\* Whatever /csrf and /logout write back over each other, a live session keeps the guilds of
\* its login, and its first token until a logout removes it (attachToMetadata, getCsrfToken,
\* invalidateMetadata).
THEOREM MetadataStay == Spec => MetadataKept
<1> DEFINE Kept ==
      \A s \in Sessions :
        Live(rows[s]) /\ Live(rows[s])' =>
          /\ rows'[s].guilds = rows[s].guilds
          /\ rows[s].token = login[s].token /\ rows'[s].token # rows[s].token =>
               \E t \in Tabs : req[t].at = "strip" /\ req[t].sid = s /\ rows'[s].token = 0
<1>1. IInv /\ MetaInv /\ [Next]_vars => [Kept]_vars
  <2> SUFFICES ASSUME IInv, MetaInv, [Next]_vars, NEW s \in Sessions, Live(rows[s]), Live(rows[s])'
               PROVE  /\ rows'[s].guilds = rows[s].guilds
                      /\ rows[s].token = login[s].token /\ rows'[s].token # rows[s].token =>
                           \E t \in Tabs : req[t].at = "strip" /\ req[t].sid = s /\ rows'[s].token = 0
    OBVIOUS
  <2>1. rows[s] # NoRow /\ rows'[s] # NoRow /\ ~(rows[s].until <= now)
    BY DEF Live, IInv, TypeOK, Rows
  <2>2. CASE Retoken(s)
    BY <2>1, <2>2 DEF Retoken
  <2>3. CASE \E t \in Tabs, guilds \in Rights : CreateSession(t, guilds)
    <3>1. PICK n \in Sessions : FreshId(n) /\ \E guilds, token : rows' = Inserted(n, guilds, token)
      BY <2>3 DEF CreateSession
    <3>2. n # s
      BY <2>1, <3>1 DEF FreshId, MetaInv, RowsKnown
    <3> QED BY <3>1, <3>2 DEF Inserted, IInv, TypeOK
  <2> QED BY <2>2, <2>3, RowsMove
<1>2. Spec => [][Kept]_vars
  BY <1>1, Invariant, MetaInvariant, PTL DEF Spec
<1> QED BY <1>2 DEF MetadataKept
=============================================================================
