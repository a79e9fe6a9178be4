--------------------------- MODULE AccountProofs ---------------------------
(***************************************************************************)
(* Proofs about Accounts, for every set of requests, names, passwords and  *)
(* secrets and every number of restarts.  None of the properties is        *)
(* inductive: what a request was answered depends on the rows it had read, *)
(* so the invariant keeps, for every request, what its handler may still   *)
(* rely on although the table has grown since.                             *)
(***************************************************************************)
EXTENDS AccountProperties, SequenceTheorems, FiniteSetTheorems, TLAPS

\* The requests, by the endpoint that handles them, and the steps of each handler.
RegisterRequest ==
  [kind : {"register"}, dto : RegisterDto, user : Nat, seen : Nat,
   at : {"username", "create", "sign", "done"}, answer : Answers]
LoginRequest ==
  [kind : {"login"}, dto : LoginDto, user : Nat, seen : Nat,
   at : {"compare", "sign", "done"}, answer : Answers]
ProfileRequest ==
  [kind : {"profile"}, token : Token, user : Nat, seen : Nat,
   at : {"validate", "done"}, answer : Answers]
Request == {Idle} \cup RegisterRequest \cup LoginRequest \cup ProfileRequest

\* What registration q has left in the table us: its own row once it has created
\* it, another's row with one of its names when it was refused.
RegistrationKept(us, q) ==
  /\ q.user # 0 => us[q.user] = NewUser(q.dto)
  /\ q.at \in {"username", "create"} => q.user = 0
  /\ q.at = "sign" => q.user # 0
  /\ q.at # "done" => q.answer = "none"
  /\ q.answer = "conflict" => q.user = 0
  /\ q.answer = "token" => q.user # 0
  /\ q.answer \in {"conflict", "failed"} /\ q.user = 0 =>
       \E i \in DOMAIN us : us[i].email = q.dto.email \/ us[i].username = q.dto.username

\* What login q has found in the table us: the user of its email among the rows it
\* has seen, or that there is none, and whether the password is that user's.
LoginKept(us, q) ==
  /\ q.user # 0 => q.user <= q.seen /\ us[q.user].email = q.dto.email
  /\ q.user = 0 => \A i \in 1 .. q.seen : us[i].email # q.dto.email
  /\ q.at \in {"compare", "sign"} => q.user # 0 /\ q.answer = "none"
  /\ q.at = "sign" \/ q.answer = "token" =>
       q.user # 0 /\ us[q.user].password = Hash(q.dto.password)
  /\ q.answer = "unauthorized" /\ q.user # 0 =>
       us[q.user].password # Hash(q.dto.password)

RequestKept(us, q) ==
  /\ q \in Request
  /\ q.user \in 0 .. Len(us) /\ q.seen \in 0 .. Len(us)
  /\ q.kind = "register" => RegistrationKept(us, q)
  /\ q.kind = "login" => LoginKept(us, q)

\* User i of the table was created by request r and by no other.
Made(r, i) == requests[r].kind = "register" /\ requests[r].user = i
OneMaker == /\ \A i \in DOMAIN users : \E r \in Requests : Made(r, i)
            /\ \A i \in DOMAIN users : \A r, q \in Requests :
                 Made(r, i) /\ Made(q, i) => r = q

\* The unique columns.
NamesDiffer(us) == \A i, j \in DOMAIN us :
                     i # j => us[i].email # us[j].email /\ us[i].username # us[j].username

TokenKept(us, t) == /\ t \in Token
                    /\ t.sub \in DOMAIN us
                    /\ us[t.sub].email = t.email /\ us[t.sub].username = t.username

AccountInv ==
  /\ users \in Seq(UserRow)
  /\ secret \in Secrets \cup {Unset}
  /\ restarts \in 0 .. MaxRestarts
  /\ requests \in [Requests -> Request]
  /\ \A r \in Requests : RequestKept(users, requests[r])
  /\ \A t \in tokens : TokenKept(users, t)
  /\ NamesDiffer(users)
  /\ OneMaker
-----------------------------------------------------------------------------
(* The table and the requests.                                             *)

LEMMA TableTypes ==
  ASSUME NEW us \in Seq(UserRow)
  PROVE  /\ Len(us) \in Nat /\ DOMAIN us = 1 .. Len(us)
         /\ \A i \in DOMAIN us : us[i] \in UserRow
BY LenProperties, ElementOfSeq

\* An insert keeps every row at its place: ids are never reused.
LEMMA TableGrows ==
  ASSUME NEW us \in Seq(UserRow), NEW row \in UserRow
  PROVE  /\ Append(us, row) \in Seq(UserRow)
         /\ Len(Append(us, row)) = Len(us) + 1
         /\ DOMAIN Append(us, row) = DOMAIN us \cup {Len(us) + 1}
         /\ \A i \in DOMAIN us : i # Len(us) + 1 /\ Append(us, row)[i] = us[i]
         /\ Append(us, row)[Len(us) + 1] = row
<1>1. /\ Append(us, row) \in Seq(UserRow) /\ Len(us) \in Nat
      /\ Len(Append(us, row)) = Len(us) + 1
      /\ \A i \in 1 .. Len(us) : Append(us, row)[i] = us[i]
      /\ Append(us, row)[Len(us) + 1] = row
  BY AppendProperties, LenProperties
<1>2. DOMAIN us = 1 .. Len(us) /\ DOMAIN Append(us, row) = 1 .. Len(us) + 1
  BY <1>1, LenProperties
<1>3. QED
  BY <1>1, <1>2

\* The row of a registration.
LEMMA NewUserRow ==
  ASSUME NEW dto \in RegisterDto
  PROVE  /\ NewUser(dto) \in UserRow
         /\ NewUser(dto).email = dto.email /\ NewUser(dto).username = dto.username
         /\ NewUser(dto).password = Hash(dto.password)
BY DEF NewUser, RegisterDto, UserRow

\* A request's kind tells its shape.
LEMMA Shapes ==
  ASSUME NEW q \in Request
  PROVE  /\ q.kind \in {"none", "register", "login", "profile"}
         /\ q.at \in {"idle", "username", "create", "sign", "compare", "validate", "done"}
         /\ q.answer \in Answers /\ q.user \in Nat /\ q.seen \in Nat
         /\ q.kind = "register" => q \in RegisterRequest
         /\ q.kind = "login" => q \in LoginRequest
         /\ q.kind = "profile" => q \in ProfileRequest
         /\ q.kind = "none" => q = Idle
         /\ q.at = "idle" => q = Idle
         /\ q.at \in {"username", "create"} => q \in RegisterRequest
         /\ q.at = "compare" => q \in LoginRequest
         /\ q.at = "validate" => q \in ProfileRequest
         /\ q.at = "sign" => q.kind \in {"register", "login"}
BY DEF Request, Idle, RegisterRequest, LoginRequest, ProfileRequest, Answers

\* What a request relies on stays true as the table grows.
LEMMA KeptAsTableGrows ==
  ASSUME NEW us \in Seq(UserRow), NEW row \in UserRow, NEW q, RequestKept(us, q)
  PROVE  RequestKept(Append(us, row), q)
<1> DEFINE new == Append(us, row)
<1>1. /\ Len(us) \in Nat /\ DOMAIN us = 1 .. Len(us)
      /\ Len(new) = Len(us) + 1 /\ DOMAIN us \subseteq DOMAIN new
      /\ \A i \in DOMAIN us : new[i] = us[i]
  BY TableTypes, TableGrows
<1> HIDE DEF new
<1>2. q \in Request /\ q.user \in 0 .. Len(us) /\ q.seen \in 0 .. Len(us)
  BY DEF RequestKept
<1>3. q.user \in 0 .. Len(new) /\ q.seen \in 0 .. Len(new)
  BY <1>1, <1>2
<1>4. q.user # 0 => q.user \in DOMAIN us
  BY <1>1, <1>2
<1>5. ASSUME q.kind = "register" PROVE RegistrationKept(new, q)
  BY <1>1, <1>4, <1>5 DEF RequestKept, RegistrationKept
<1>6. ASSUME q.kind = "login" PROVE LoginKept(new, q)
  <2>1. \A i \in 1 .. q.seen : i \in DOMAIN us
    BY <1>1, <1>2
  <2>2. QED
    BY <1>1, <1>4, <1>6, <2>1 DEF RequestKept, LoginKept
<1>7. QED
  BY <1>2, <1>3, <1>5, <1>6 DEF RequestKept, new

\* One request takes a step and the table is left alone.
LEMMA OneRequestMoves ==
  ASSUME AccountInv, NEW r \in Requests, NEW q,
         requests' = [requests EXCEPT ![r] = q],
         RequestKept(users, q),
         \A i \in DOMAIN users :
           (q.kind = "register" /\ q.user = i) <=> Made(r, i),
         \A t \in tokens' : TokenKept(users, t),
         UNCHANGED <<users, secret, restarts>>
  PROVE  AccountInv'
<1>1. /\ requests' \in [Requests -> Request]
      /\ \A p \in Requests : requests'[p] = IF p = r THEN q ELSE requests[p]
  BY DEF AccountInv, RequestKept
<1>2. \A p \in Requests : RequestKept(users, requests'[p])
  BY <1>1 DEF AccountInv
<1>3. \A p \in Requests, i \in DOMAIN users : Made(p, i)' <=> Made(p, i)
  BY <1>1 DEF Made
<1>4. OneMaker'
  BY <1>3 DEF AccountInv, OneMaker
<1>5. QED
  BY <1>1, <1>2, <1>4 DEF AccountInv

LEMMA Answered ==
  ASSUME AccountInv, NEW r \in Requests, NEW a \in Answers, Answer(r, a), requests[r] # Idle
  PROVE  \E q \in Request :
           /\ requests' = [requests EXCEPT ![r] = q]
           /\ q.at = "done" /\ q.answer = a
           /\ q.kind = requests[r].kind /\ q.user = requests[r].user
           /\ q.seen = requests[r].seen
           /\ q.kind \in {"register", "login"} => q.dto = requests[r].dto
<1> DEFINE q == [requests[r] EXCEPT !.at = "done", !.answer = a]
<1>1. requests' = [requests EXCEPT ![r] = q]
  BY DEF AccountInv, Answer
<1>2. /\ q \in Request /\ q.at = "done" /\ q.answer = a
      /\ q.kind = requests[r].kind /\ q.user = requests[r].user
      /\ q.seen = requests[r].seen
      /\ q.kind \in {"register", "login"} => q.dto = requests[r].dto
  BY ZenonT(30) DEF AccountInv, Request, RegisterRequest, LoginRequest, ProfileRequest
<1>3. QED
  BY <1>1, <1>2

LEMMA Went ==
  ASSUME AccountInv, NEW r \in Requests, NEW at, Go(r, at),
         \/ requests[r].kind = "register" /\ at \in {"username", "create", "sign", "done"}
         \/ requests[r].kind = "login" /\ at \in {"compare", "sign", "done"}
  PROVE  \E q \in Request :
           /\ requests' = [requests EXCEPT ![r] = q]
           /\ q.at = at /\ q.answer = requests[r].answer
           /\ q.kind = requests[r].kind /\ q.user = requests[r].user
           /\ q.seen = requests[r].seen /\ q.dto = requests[r].dto
<1> DEFINE q == [requests[r] EXCEPT !.at = at]
<1>1. requests' = [requests EXCEPT ![r] = q]
  BY DEF AccountInv, Go
<1>2. /\ q \in Request /\ q.at = at /\ q.answer = requests[r].answer
      /\ q.kind = requests[r].kind /\ q.user = requests[r].user
      /\ q.seen = requests[r].seen /\ q.dto = requests[r].dto
  <2>1. requests[r] \in Request
    BY DEF AccountInv
  <2>2. CASE requests[r].kind = "register" /\ at \in {"username", "create", "sign", "done"}
    <3>1. requests[r] \in RegisterRequest
      BY <2>1, <2>2, Shapes
    <3>2. QED
      BY <2>2, <3>1 DEF Request, RegisterRequest
  <2>3. CASE requests[r].kind = "login" /\ at \in {"compare", "sign", "done"}
    <3>1. requests[r] \in LoginRequest
      BY <2>1, <2>3, Shapes
    <3>2. QED
      BY <2>3, <3>1 DEF Request, LoginRequest
  <2>4. QED
    BY <2>2, <2>3
<1>3. QED
  BY <1>1, <1>2

-----------------------------------------------------------------------------
(* The handlers.                                                           *)

LEMMA RegisterKeeps ==
  ASSUME AccountInv, NEW r \in Requests, NEW dto \in RegisterDto, Register(r, dto)
  PROVE  AccountInv'
<1> DEFINE q == [kind |-> "register", dto |-> dto, user |-> 0, seen |-> Len(users),
                 at |-> IF FindByEmail(dto.email) = {} THEN "username" ELSE "done",
                 answer |-> IF FindByEmail(dto.email) = {} THEN "none" ELSE "conflict"]
<1>1. requests[r] = Idle /\ Len(users) \in Nat /\ DOMAIN users = 1 .. Len(users)
  BY Shapes, TableTypes DEF AccountInv, Register
<1>2. q \in Request
  BY <1>1 DEF Request, RegisterRequest, Answers
<1>3. RegistrationKept(users, q)
  BY DEF RegistrationKept, FindByEmail
<1>4. RequestKept(users, q)
  BY <1>1, <1>2, <1>3 DEF RequestKept
<1>5. \A i \in DOMAIN users : (q.kind = "register" /\ q.user = i) <=> Made(r, i)
  BY <1>1 DEF Made, Idle
<1>6. requests' = [requests EXCEPT ![r] = q]
  BY DEF Register
<1> HIDE DEF q
<1>7. QED
  BY <1>4, <1>5, <1>6, OneRequestMoves DEF AccountInv, Register

LEMMA CheckUsernameKeeps ==
  ASSUME AccountInv, NEW r \in Requests, CheckUsername(r)
  PROVE  AccountInv'
<1> DEFINE old == requests[r]
<1>1. /\ old \in RegisterRequest /\ old.kind = "register" /\ old # Idle
      /\ RequestKept(users, old)
  BY Shapes DEF AccountInv, CheckUsername, RegisterRequest, Idle
<1>2. CASE FindByUsername(old.dto.username) = {}
  <2>1. Go(r, "create")
    BY <1>2 DEF CheckUsername
  <2>2. PICK q \in Request :
          /\ requests' = [requests EXCEPT ![r] = q]
          /\ q.at = "create" /\ q.answer = old.answer
          /\ q.kind = old.kind /\ q.user = old.user
          /\ q.seen = old.seen /\ q.dto = old.dto
    BY <1>1, <2>1, Went
  <2>3. RequestKept(users, q)
    BY <1>1, <2>2 DEF RequestKept, RegistrationKept, CheckUsername
  <2>4. QED
    BY <2>2, <2>3, OneRequestMoves DEF AccountInv, CheckUsername, Made
<1>3. CASE FindByUsername(old.dto.username) # {}
  <2>1. Answer(r, "conflict")
    BY <1>3 DEF CheckUsername
  <2>2. "conflict" \in Answers
    BY DEF Answers
  <2>3. PICK q \in Request :
          /\ requests' = [requests EXCEPT ![r] = q]
          /\ q.at = "done" /\ q.answer = "conflict"
          /\ q.kind = old.kind /\ q.user = old.user
          /\ q.seen = old.seen
          /\ q.kind \in {"register", "login"} => q.dto = old.dto
    BY <1>1, <2>1, <2>2, Answered
  <2>4. RequestKept(users, q)
    BY <1>1, <1>3, <2>3 DEF RequestKept, RegistrationKept, CheckUsername, FindByUsername
  <2>5. QED
    BY <2>3, <2>4, OneRequestMoves DEF AccountInv, CheckUsername, Made
<1>4. QED
  BY <1>2, <1>3

LEMMA LoginKeeps ==
  ASSUME AccountInv, NEW r \in Requests, NEW dto \in LoginDto, Login(r, dto)
  PROVE  AccountInv'
<1> DEFINE found == CHOOSE i \in FindByEmail(dto.email) : TRUE
           q == [kind |-> "login", dto |-> dto, seen |-> Len(users),
                 user |-> IF FindByEmail(dto.email) = {} THEN 0 ELSE found,
                 at |-> IF FindByEmail(dto.email) = {} THEN "done" ELSE "compare",
                 answer |-> IF FindByEmail(dto.email) = {} THEN "unauthorized" ELSE "none"]
<1>1. requests[r] = Idle /\ Len(users) \in Nat /\ DOMAIN users = 1 .. Len(users)
  BY Shapes, TableTypes DEF AccountInv, Login
<1>2. requests' = [requests EXCEPT ![r] = q]
  BY DEF Login
<1>3. FindByEmail(dto.email) # {} => found \in FindByEmail(dto.email)
  OBVIOUS
<1> HIDE DEF found
<1>4. FindByEmail(dto.email) # {} =>
        found \in 1 .. Len(users) /\ users[found].email = dto.email
  BY <1>1, <1>3 DEF FindByEmail
<1>5. q \in Request /\ q.user \in 0 .. Len(users)
  BY <1>1, <1>4 DEF Request, LoginRequest, Answers
<1>6. LoginKept(users, q)
  <2>1. CASE FindByEmail(dto.email) = {}
    BY <1>1, <2>1 DEF LoginKept, FindByEmail
  <2>2. CASE FindByEmail(dto.email) # {}
    BY <1>1, <1>4, <2>2 DEF LoginKept
  <2>3. QED
    BY <2>1, <2>2
<1>7. RequestKept(users, q)
  BY <1>1, <1>5, <1>6 DEF RequestKept
<1>8. \A i \in DOMAIN users : (q.kind = "register" /\ q.user = i) <=> Made(r, i)
  BY <1>1 DEF Made, Idle
<1> HIDE DEF q
<1>9. QED
  BY <1>2, <1>7, <1>8, OneRequestMoves DEF AccountInv, Login

LEMMA ComparePasswordKeeps ==
  ASSUME AccountInv, NEW r \in Requests, ComparePassword(r)
  PROVE  AccountInv'
<1> DEFINE old == requests[r]
<1>1. /\ old \in LoginRequest /\ old.kind = "login" /\ old # Idle
      /\ RequestKept(users, old)
  BY Shapes DEF AccountInv, ComparePassword, LoginRequest, Idle
<1>2. old.user # 0
  BY <1>1 DEF RequestKept, LoginKept, ComparePassword
<1>3. CASE users[old.user].password = Hash(old.dto.password)
  <2>1. Go(r, "sign")
    BY <1>3 DEF ComparePassword
  <2>2. PICK q \in Request :
          /\ requests' = [requests EXCEPT ![r] = q]
          /\ q.at = "sign" /\ q.answer = old.answer
          /\ q.kind = old.kind /\ q.user = old.user
          /\ q.seen = old.seen /\ q.dto = old.dto
    BY <1>1, <2>1, Went
  <2>3. RequestKept(users, q)
    BY <1>1, <1>2, <1>3, <2>2 DEF RequestKept, LoginKept, ComparePassword
  <2>4. QED
    BY <1>1, <2>2, <2>3, OneRequestMoves DEF AccountInv, ComparePassword, Made
<1>4. CASE users[old.user].password # Hash(old.dto.password)
  <2>1. Answer(r, "unauthorized")
    BY <1>4 DEF ComparePassword
  <2>2. "unauthorized" \in Answers
    BY DEF Answers
  <2>3. PICK q \in Request :
          /\ requests' = [requests EXCEPT ![r] = q]
          /\ q.at = "done" /\ q.answer = "unauthorized"
          /\ q.kind = old.kind /\ q.user = old.user
          /\ q.seen = old.seen
          /\ q.kind \in {"register", "login"} => q.dto = old.dto
    BY <1>1, <2>1, <2>2, Answered
  <2>4. RequestKept(users, q)
    BY <1>1, <1>2, <1>4, <2>3 DEF RequestKept, LoginKept, ComparePassword
  <2>5. QED
    BY <1>1, <2>3, <2>4, OneRequestMoves DEF AccountInv, ComparePassword, Made
<1>5. QED
  BY <1>3, <1>4

\* The insert succeeds: the table grows by the row of registration r.
LEMMA InsertKeeps ==
  ASSUME AccountInv, NEW r \in Requests, CreateUser(r), Unique(requests[r].dto)
  PROVE  AccountInv'
<1> DEFINE old == requests[r]
           row == NewUser(old.dto)
           new == Append(users, row)
           id == Len(users) + 1
           q == [old EXCEPT !.at = "sign", !.user = id]
<1>1. /\ old \in RegisterRequest /\ RequestKept(users, old) /\ old.user = 0
      /\ old.answer = "none"
  BY Shapes DEF AccountInv, CreateUser, RequestKept, RegistrationKept, RegisterRequest
<1>2. /\ row \in UserRow /\ row.email = old.dto.email /\ row.username = old.dto.username
  BY <1>1, NewUserRow DEF RegisterRequest
<1>3. /\ users' = new /\ requests' = [requests EXCEPT ![r] = q]
      /\ UNCHANGED <<tokens, secret, restarts>>
  BY DEF CreateUser, AccountInv
<1> HIDE DEF row
<1>4. /\ Len(users) \in Nat /\ DOMAIN users = 1 .. Len(users)
      /\ new \in Seq(UserRow) /\ Len(new) = id /\ DOMAIN new = DOMAIN users \cup {id}
      /\ \A i \in DOMAIN users : i # id /\ new[i] = users[i]
      /\ new[id] = row
  BY <1>2, TableTypes, TableGrows DEF AccountInv
<1>5. /\ q \in Request /\ q.kind = "register" /\ q.at = "sign" /\ q.user = id
      /\ q.answer = "none" /\ q.seen = old.seen /\ q.dto = old.dto
  <2>1. id \in Nat
    BY <1>4
  <2> HIDE DEF id
  <2>2. /\ q \in RegisterRequest /\ q.at = "sign" /\ q.user = id
        /\ q.answer = old.answer /\ q.seen = old.seen /\ q.dto = old.dto
    BY <1>1, <2>1 DEF RegisterRequest
  <2>3. QED
    BY <1>1, <2>2 DEF Request, RegisterRequest
<1>6. new[id] = NewUser(q.dto)
  BY <1>4, <1>5 DEF row
<1>7. \A p \in Requests : RequestKept(users, requests[p]) => RequestKept(new, requests[p])
  BY <1>2, KeptAsTableGrows DEF AccountInv
<1>8. NamesDiffer(new)
  <2>1. \A i \in DOMAIN users : /\ users[i].email # row.email
                                /\ users[i].username # row.username
    BY <1>2 DEF Unique, FindByEmail, FindByUsername
  <2>2. QED
    BY <1>4, <2>1 DEF AccountInv, NamesDiffer
<1>9. \A t \in tokens : TokenKept(new, t)
  BY <1>4 DEF AccountInv, TokenKept
<1> HIDE DEF new, q
<1>10. RequestKept(new, q)
  BY <1>1, <1>4, <1>5, <1>6 DEF RequestKept, RegistrationKept
<1>11. /\ requests' \in [Requests -> Request]
       /\ \A p \in Requests : requests'[p] = IF p = r THEN q ELSE requests[p]
  BY <1>3, <1>5 DEF AccountInv
<1>12. \A p \in Requests : RequestKept(new, requests'[p])
  BY <1>7, <1>10, <1>11 DEF AccountInv
<1>13. OneMaker'
  <2>1. \A p \in Requests : requests[p].user # id
    BY <1>4 DEF AccountInv, RequestKept
  <2>2. \A i : i = id => \A p \in Requests : Made(p, i)' <=> p = r
    BY <1>5, <1>11, <2>1 DEF Made
  <2>3. \A p \in Requests, i \in DOMAIN users : Made(p, i)' <=> Made(p, i)
    BY <1>1, <1>4, <1>5, <1>11 DEF Made
  <2>4. DOMAIN users' = DOMAIN users \cup {id}
    BY <1>3, <1>4
  <2>5. /\ \A i \in DOMAIN users : \E p \in Requests : Made(p, i)
        /\ \A i \in DOMAIN users : \A p, s \in Requests : Made(p, i) /\ Made(s, i) => p = s
    BY DEF AccountInv, OneMaker
  <2> HIDE DEF id
  <2>6. \A i \in DOMAIN users' : \E p \in Requests : Made(p, i)'
    BY <2>2, <2>3, <2>4, <2>5
  <2>7. \A i \in DOMAIN users' : \A p, s \in Requests : Made(p, i)' /\ Made(s, i)' => p = s
    BY <2>2, <2>3, <2>4, <2>5
  <2>8. QED
    BY <2>6, <2>7 DEF OneMaker
<1>14. QED
  BY <1>3, <1>4, <1>8, <1>9, <1>11, <1>12, <1>13 DEF AccountInv

LEMMA CreateUserKeeps ==
  ASSUME AccountInv, NEW r \in Requests, CreateUser(r)
  PROVE  AccountInv'
<1> DEFINE old == requests[r]
<1>1. CASE Unique(old.dto)
  BY <1>1, InsertKeeps
<1>2. CASE ~Unique(old.dto)
  <2>1. /\ old \in RegisterRequest /\ old.kind = "register" /\ old # Idle
        /\ RequestKept(users, old)
    BY Shapes DEF AccountInv, CreateUser, RegisterRequest, Idle
  <2>2. Answer(r, "failed") /\ UNCHANGED <<users, tokens, secret, restarts>>
    BY <1>2 DEF CreateUser
  <2>3. "failed" \in Answers
    BY DEF Answers
  <2>4. PICK q \in Request :
          /\ requests' = [requests EXCEPT ![r] = q]
          /\ q.at = "done" /\ q.answer = "failed"
          /\ q.kind = old.kind /\ q.user = old.user
          /\ q.seen = old.seen
          /\ q.kind \in {"register", "login"} => q.dto = old.dto
    BY <2>1, <2>2, <2>3, Answered
  <2>5. \E i \in DOMAIN users : \/ users[i].email = old.dto.email
                                \/ users[i].username = old.dto.username
    BY <1>2 DEF Unique, FindByEmail, FindByUsername
  <2>6. RequestKept(users, q)
    BY <2>1, <2>4, <2>5 DEF RequestKept, RegistrationKept
  <2>7. QED
    BY <2>2, <2>4, <2>6, OneRequestMoves DEF AccountInv, Made
<1>3. QED
  BY <1>1, <1>2

\* A request that is answered keeps what it relied on: for sign and validate.
LEMMA AnswerKeeps ==
  ASSUME AccountInv, NEW r \in Requests, requests[r] # Idle,
         NEW a \in {"failed", "token", "profile", "notfound"}, Answer(r, a),
         requests[r].kind = "profile" \/ requests[r].at = "sign",
         \A t \in tokens' : TokenKept(users, t),
         UNCHANGED <<users, secret, restarts>>
  PROVE  AccountInv'
<1> DEFINE old == requests[r]
<1>1. RequestKept(users, old) /\ a \in Answers
  BY DEF AccountInv, Answers
<1>2. PICK q \in Request :
        /\ requests' = [requests EXCEPT ![r] = q]
        /\ q.at = "done" /\ q.answer = a
        /\ q.kind = old.kind /\ q.user = old.user
        /\ q.seen = old.seen
        /\ q.kind \in {"register", "login"} => q.dto = old.dto
  BY <1>1, Answered
<1>3. q.kind = "register" => RegistrationKept(users, q)
  BY <1>1, <1>2 DEF RequestKept, RegistrationKept
<1>4. q.kind = "login" => LoginKept(users, q)
  BY <1>1, <1>2 DEF RequestKept, LoginKept
<1>5. RequestKept(users, q)
  BY <1>1, <1>2, <1>3, <1>4 DEF RequestKept
<1>6. QED
  BY <1>2, <1>5, OneRequestMoves DEF Made

LEMMA SignKeeps ==
  ASSUME AccountInv, NEW r \in Requests, Sign(r)
  PROVE  AccountInv'
<1> DEFINE i == requests[r].user
<1>1. requests[r] # Idle /\ requests[r].at = "sign" /\ i \in DOMAIN users /\ i \in Nat
  BY Shapes, TableTypes DEF AccountInv, Sign, RequestKept, RegistrationKept, LoginKept, Idle
<1>2. CASE secret = Unset
  BY <1>1, <1>2, AnswerKeeps DEF Sign, AccountInv
<1>3. CASE secret # Unset
  <2>1. secret \in Secrets /\ users[i] \in UserRow
    BY <1>1, <1>3, TableTypes DEF AccountInv
  <2>2. TokenKept(users, Payload(i))
    BY <1>1, <2>1 DEF TokenKept, Payload, Token, UserRow
  <2>3. QED
    BY <1>1, <1>3, <2>2, AnswerKeeps DEF Sign, AccountInv
<1>4. QED
  BY <1>2, <1>3

LEMMA GetProfileKeeps ==
  ASSUME AccountInv, NEW r \in Requests, NEW t \in tokens, GetProfile(r, t)
  PROVE  AccountInv'
<1> DEFINE q == [kind |-> "profile", token |-> t, seen |-> Len(users),
                 user |-> IF Verified(t) THEN t.sub ELSE 0,
                 at |-> IF Verified(t) THEN "validate" ELSE "done",
                 answer |-> IF Verified(t) THEN "none" ELSE "unauthorized"]
<1>1. requests[r] = Idle /\ Len(users) \in Nat /\ DOMAIN users = 1 .. Len(users)
  BY Shapes, TableTypes DEF AccountInv, GetProfile
<1>2. t \in Token /\ t.sub \in 1 .. Len(users)
  BY <1>1 DEF AccountInv, TokenKept
<1>3. RequestKept(users, q)
  BY <1>1, <1>2 DEF RequestKept, Request, ProfileRequest, Answers
<1>4. \A i \in DOMAIN users : (q.kind = "register" /\ q.user = i) <=> Made(r, i)
  BY <1>1 DEF Made, Idle
<1>5. requests' = [requests EXCEPT ![r] = q]
  BY DEF GetProfile
<1> HIDE DEF q
<1>6. QED
  BY <1>3, <1>4, <1>5, OneRequestMoves DEF AccountInv, GetProfile

LEMMA ValidateKeeps ==
  ASSUME AccountInv, NEW r \in Requests, Validate(r)
  PROVE  AccountInv'
<1>1. requests[r] # Idle /\ requests[r].kind = "profile"
  BY Shapes DEF AccountInv, Validate, ProfileRequest, Idle
<1>2. QED
  <2>1. UNCHANGED <<users, secret, restarts>> /\ \A t \in tokens' : TokenKept(users, t)
    BY DEF Validate, AccountInv
  <2>2. Answer(r, "profile") \/ Answer(r, "notfound")
    BY DEF Validate
  <2>3. CASE Answer(r, "profile")
    BY <1>1, <2>1, <2>3, AnswerKeeps
  <2>4. CASE Answer(r, "notfound")
    BY <1>1, <2>1, <2>4, AnswerKeeps
  <2>5. QED
    BY <2>2, <2>3, <2>4

LEMMA ExpireKeeps ==
  ASSUME AccountInv, NEW t \in tokens, Expire(t)
  PROVE  AccountInv'
<1>1. TokenKept(users, [t EXCEPT !.expired = TRUE])
  BY DEF AccountInv, TokenKept, Token
<1>2. \A u \in tokens' : TokenKept(users, u)
  BY <1>1 DEF Expire, AccountInv
<1>3. OneMaker'
  BY DEF AccountInv, OneMaker, Made, Expire
<1>4. QED
  BY <1>2, <1>3 DEF AccountInv, Expire

LEMMA RestartKeeps ==
  ASSUME AccountInv, Restart
  PROVE  AccountInv'
<1> DEFINE Lost(q) == [q EXCEPT !.at = "done", !.answer = "lost"]
<1>1. \A r \in Requests : requests[r] \in Request
  BY DEF AccountInv
<1>2. \A r \in Requests :
        requests'[r] = IF InFlight(r) THEN Lost(requests[r]) ELSE requests[r]
  BY DEF Restart
<1>3. \A r \in Requests : InFlight(r) =>
        LET q == Lost(requests[r]) IN
        /\ q \in Request /\ q.kind = requests[r].kind /\ q.user = requests[r].user
        /\ q.seen = requests[r].seen /\ q.at = "done" /\ q.answer = "lost"
        /\ q.kind \in {"register", "login"} => q.dto = requests[r].dto
  <2>1. ASSUME NEW q \in Request, q # Idle
        PROVE  /\ Lost(q) \in Request /\ Lost(q).kind = q.kind /\ Lost(q).user = q.user
               /\ Lost(q).seen = q.seen /\ Lost(q).at = "done" /\ Lost(q).answer = "lost"
               /\ q.kind \in {"register", "login"} => Lost(q).dto = q.dto
    BY <2>1 DEF Request, RegisterRequest, LoginRequest, ProfileRequest, Answers
  <2>2. \A r \in Requests : InFlight(r) => requests[r] # Idle
    BY DEF InFlight, Idle
  <2>3. QED
    BY <1>1, <2>1, <2>2
<1> HIDE DEF Lost
<1>4. \A r \in Requests :
        /\ requests'[r] \in Request
        /\ RequestKept(users, requests'[r])
        /\ \A i : Made(r, i)' <=> Made(r, i)
  <2> SUFFICES ASSUME NEW r \in Requests
               PROVE  /\ requests'[r] \in Request
                      /\ RequestKept(users, requests'[r])
                      /\ \A i : Made(r, i)' <=> Made(r, i)
    OBVIOUS
  <2>1. RequestKept(users, requests[r])
    BY DEF AccountInv
  <2>2. CASE ~InFlight(r)
    BY <1>1, <1>2, <2>1, <2>2 DEF Made
  <2>3. CASE InFlight(r)
    <3> DEFINE q == Lost(requests[r])
    <3>1. requests'[r] = q
      BY <1>2, <2>3
    <3>2. /\ q \in Request /\ q.kind = requests[r].kind /\ q.user = requests[r].user
          /\ q.seen = requests[r].seen /\ q.at = "done" /\ q.answer = "lost"
          /\ q.kind \in {"register", "login"} => q.dto = requests[r].dto
      BY <1>3, <2>3
    <3> HIDE DEF q
    <3>3. q.kind = "register" => RegistrationKept(users, q)
      BY <2>1, <3>2 DEF RequestKept, RegistrationKept
    <3>4. q.kind = "login" => LoginKept(users, q)
      BY <2>1, <3>2 DEF RequestKept, LoginKept
    <3>5. QED
      BY <2>1, <3>1, <3>2, <3>3, <3>4 DEF RequestKept, Made
  <2>4. QED
    BY <2>2, <2>3
<1>5. requests' \in [Requests -> Request]
  BY <1>4 DEF Restart
<1>6. restarts' \in 0 .. MaxRestarts
  <2>1. restarts \in 0 .. MaxRestarts /\ restarts < MaxRestarts /\ restarts' = restarts + 1
    BY DEF AccountInv, Restart
  <2>2. QED
    BY <2>1, RestartsAssumption
<1>7. OneMaker'
  BY <1>4 DEF AccountInv, OneMaker, Restart
<1>8. QED
  BY <1>4, <1>5, <1>6, <1>7 DEF AccountInv, Restart

LEMMA AccountInvInit ==
  ASSUME Init
  PROVE  AccountInv
<1>1. users = <<>> /\ tokens = {} /\ restarts = 0 /\ secret \in Secrets \cup {Unset}
  BY DEF Init
<1>2. users \in Seq(UserRow) /\ Len(users) = 0 /\ DOMAIN users = {}
  BY <1>1, EmptySeq
<1>3. \A r \in Requests : requests[r] = Idle
  BY DEF Init
<1>4. requests \in [Requests -> Request]
  BY DEF Init, Request
<1>5. RequestKept(users, Idle)
  BY <1>2 DEF RequestKept, Request, Idle
<1>6. restarts \in 0 .. MaxRestarts
  BY <1>1, RestartsAssumption
<1>7. QED
  BY <1>1, <1>2, <1>3, <1>4, <1>5, <1>6 DEF AccountInv, NamesDiffer, OneMaker

LEMMA AccountInvStep ==
  ASSUME AccountInv, [Next]_vars
  PROVE  AccountInv'
<1>1. ASSUME NEW r \in Requests, HandlerStep(r)
      PROVE  AccountInv'
  BY <1>1, CheckUsernameKeeps, CreateUserKeeps, SignKeeps, ComparePasswordKeeps, ValidateKeeps
     DEF HandlerStep
<1>2. CASE UNCHANGED vars
  <2>1. UNCHANGED <<users, requests, tokens, secret, restarts>>
    BY <1>2 DEF vars
  <2>2. OneMaker'
    BY <2>1 DEF AccountInv, OneMaker, Made
  <2>3. QED
    BY <2>1, <2>2 DEF AccountInv
<1>3. QED
  BY <1>1, <1>2, RegisterKeeps, LoginKeeps, GetProfileKeeps, ExpireKeeps, RestartKeeps
     DEF Next

\* However requests race and wherever the process is restarted, each handler may rely
\* on what it has read: the invariant the other theorems rest on.
THEOREM AccountsKept == Spec => []AccountInv
<1>1. Init => AccountInv
  BY AccountInvInit
<1>2. AccountInv /\ [Next]_vars => AccountInv'
  BY AccountInvStep
<1>3. QED
  BY <1>1, <1>2, PTL DEF Spec

-----------------------------------------------------------------------------
(* What follows from it.                                                   *)

\* Rows, requests and tokens have their types, however the handlers interleave and
\* wherever the process is restarted.
THEOREM TypeCorrect == Spec => []TypeOK
<1>1. ASSUME AccountInv
      PROVE  TypeOK
  <2>1. \A r \in Requests :
          /\ requests[r] \in Request
          /\ requests[r].user \in 0 .. Len(users) /\ requests[r].seen \in 0 .. Len(users)
    BY <1>1 DEF AccountInv, RequestKept
  <2>2. \A r \in Requests :
          /\ requests[r].kind = "register" => requests[r].dto \in RegisterDto
          /\ requests[r].kind = "login" => requests[r].dto \in LoginDto
          /\ requests[r].kind = "profile" => requests[r].token \in Token
    BY <2>1, Shapes DEF RegisterRequest, LoginRequest, ProfileRequest
  <2>3. QED
    BY <1>1, <2>1, <2>2, Shapes DEF AccountInv, TokenKept, TypeOK
<1>2. QED
  BY <1>1, AccountsKept, PTL

\* register reads the table, checks and inserts in separate steps
\* (auth.service.ts:17-34): for any number of racing registrations, every account is
\* the work of exactly one, and no email or username is held twice.
THEOREM OneMakerEach == Spec => []AccountHasOneMaker
<1>1. ASSUME AccountInv
      PROVE  AccountHasOneMaker
  <2>1. ASSUME NEW i \in DOMAIN users
        PROVE  Cardinality({r \in Registrations : requests[r].user = i}) = 1
    <3>1. PICK r \in Requests : Made(r, i)
      BY <1>1 DEF AccountInv, OneMaker
    <3>2. {p \in Registrations : requests[p].user = i} = {r}
      BY <1>1, <3>1 DEF AccountInv, OneMaker, Made, Registrations
    <3>3. QED
      BY <3>2, FS_Singleton
  <2>2. QED
    BY <1>1, <2>1 DEF AccountInv, NamesDiffer, AccountHasOneMaker
<1>2. QED
  BY <1>1, AccountsKept, PTL

\* A refused registration is refused because of an account that exists, and one that
\* is refused with 409 has created none, for any number of racing registrations: they
\* cannot all refuse each other.
THEOREM RefusalsHaveACause == Spec => []AnsweredNamesAreHeld
<1>1. ASSUME AccountInv
      PROVE  AnsweredNamesAreHeld
  <2> SUFFICES ASSUME NEW r \in Registrations,
                      requests[r].answer \in {"conflict", "failed", "token"}
               PROVE  /\ Holders(r) # {}
                      /\ requests[r].answer = "conflict" => requests[r].user = 0
    BY DEF AnsweredNamesAreHeld
  <2> DEFINE q == requests[r]
  <2>1. q \in RegisterRequest /\ RequestKept(users, q) /\ RegistrationKept(users, q)
    BY <1>1, Shapes DEF AccountInv, Registrations, RequestKept
  <2>2. DOMAIN users = 1 .. Len(users) /\ Len(users) \in Nat
    BY <1>1, TableTypes DEF AccountInv
  <2>3. \E i \in DOMAIN users : users[i].email = q.dto.email \/ users[i].username = q.dto.username
    <3>1. CASE q.user = 0
      BY <2>1, <3>1 DEF RegistrationKept
    <3>2. CASE q.user # 0
      <4>1. q.user \in DOMAIN users
        BY <2>1, <2>2, <3>2 DEF RequestKept
      <4>2. users[q.user].email = q.dto.email
        BY <2>1, <3>2, NewUserRow DEF RegistrationKept, RegisterRequest
      <4>3. QED
        BY <4>1, <4>2
    <3>3. QED
      BY <3>1, <3>2
  <2>4. QED
    BY <2>1, <2>3 DEF Holders, RegistrationKept
<1>2. QED
  BY <1>1, AccountsKept, PTL

\* A login answered 200 or 401 was given the password that the account's registration
\* chose, or another, whatever the registration was answered: the hash that is compared
\* is that of the one registration that created the row.
THEOREM PasswordsOpen == Spec => []OwnPasswordOpens
<1>1. ASSUME AccountInv
      PROVE  OwnPasswordOpens
  <2> SUFFICES ASSUME NEW l \in Logins, requests[l].answer \in {"unauthorized", "token"}
               PROVE  (\E r \in Registrations :
                         /\ requests[r].user \in 1..requests[l].seen
                         /\ requests[r].dto.email = requests[l].dto.email
                         /\ Read[requests[r].dto.password] = Read[requests[l].dto.password])
                      <=> requests[l].answer = "token"
    BY DEF OwnPasswordOpens
  <2> DEFINE q == requests[l]
             Chose(r) == /\ requests[r].user \in 1 .. q.seen
                         /\ requests[r].dto.email = q.dto.email
                         /\ Hash(requests[r].dto.password) = Hash(q.dto.password)
  <2>1. /\ q \in LoginRequest /\ RequestKept(users, q) /\ LoginKept(users, q)
        /\ DOMAIN users = 1 .. Len(users) /\ Len(users) \in Nat
        /\ q.user \in 0 .. Len(users) /\ q.seen \in 0 .. Len(users)
    BY <1>1, Shapes, TableTypes DEF AccountInv, Logins, RequestKept
  <2>2. ASSUME NEW r \in Registrations, requests[r].user # 0
        PROVE  /\ requests[r].user \in DOMAIN users
               /\ users[requests[r].user].email = requests[r].dto.email
               /\ users[requests[r].user].password = Hash(requests[r].dto.password)
    <3>1. /\ requests[r] \in RegisterRequest /\ RequestKept(users, requests[r])
      BY <1>1, Shapes DEF AccountInv, Registrations
    <3>2. RegistrationKept(users, requests[r]) /\ requests[r].user \in 0 .. Len(users)
      BY <3>1 DEF RequestKept, RegisterRequest
    <3>3. users[requests[r].user] = NewUser(requests[r].dto)
      BY <2>2, <3>2 DEF RegistrationKept
    <3>4. requests[r].user \in DOMAIN users
      BY <2>1, <2>2, <3>2
    <3>5. requests[r].dto \in RegisterDto
      BY <3>1 DEF RegisterRequest
    <3>6. QED
      BY <3>3, <3>4, <3>5, NewUserRow
  <2>3. ASSUME NEW r \in Registrations, Chose(r)
        PROVE  q.answer = "token"
    <3> DEFINE u == requests[r].user
    <3>1. /\ u \in 1 .. q.seen /\ u # 0 /\ u \in DOMAIN users
          /\ users[u].email = q.dto.email /\ users[u].password = Hash(q.dto.password)
      BY <2>1, <2>2, <2>3
    <3>2. q.user # 0
      BY <2>1, <3>1 DEF LoginKept
    <3>3. q.user \in DOMAIN users /\ users[q.user].email = q.dto.email
      BY <2>1, <3>2 DEF LoginKept
    <3>4. q.user = u
      BY <1>1, <3>1, <3>3 DEF AccountInv, NamesDiffer
    <3>5. QED
      BY <2>1, <3>1, <3>2, <3>4 DEF LoginKept
  <2>4. ASSUME q.answer = "token"
        PROVE  \E r \in Registrations : Chose(r)
    <3>1. /\ q.user # 0 /\ q.user \in DOMAIN users /\ q.user \in 1 .. q.seen
          /\ users[q.user].email = q.dto.email
          /\ users[q.user].password = Hash(q.dto.password)
      BY <2>1, <2>4 DEF LoginKept
    <3>2. PICK r \in Requests : Made(r, q.user)
      BY <1>1, <3>1 DEF AccountInv, OneMaker
    <3>3. r \in Registrations /\ requests[r].user = q.user
      BY <3>2 DEF Made, Registrations
    <3>4. /\ users[q.user].email = requests[r].dto.email
          /\ Hash(q.dto.password) = Hash(requests[r].dto.password)
      BY <2>2, <3>1, <3>3
    <3>5. QED
      BY <3>1, <3>3, <3>4
  <2>5. \A r : Hash(requests[r].dto.password) = Hash(q.dto.password)
              <=> Read[requests[r].dto.password] = Read[q.dto.password]
    BY DEF Hash
  <2>6. QED
    BY <2>3, <2>4, <2>5
<1>2. QED
  BY <1>1, AccountsKept, PTL
=============================================================================
