------------------------------ MODULE Accounts ------------------------------
(***************************************************************************)
(* Accounts: AuthService over UsersService and the table users, with the   *)
(* signing and checking of JWTs.                                           *)
(*                                                                         *)
(* A request is handled in steps that end at its awaits, so requests of    *)
(* one name interleave between the checks of register and its insert.      *)
(* Rows are never deleted or changed: a user's id is its place in users.   *)
(* The process may be restarted, with or without a usable JWT_SECRET;      *)
(* requests in flight are lost, the table and the tokens are kept.         *)
(* bcrypt reads the first 72 bytes of a password only: Read[p] stands for  *)
(* them, and its salt, which compare takes from the hash, is left out.     *)
(***************************************************************************)
EXTENDS Naturals, Sequences, FiniteSets

CONSTANTS Requests,      \* requests, each made once
          Emails, Usernames, Passwords,
          Read,          \* what bcrypt reads of each password
          Secrets,       \* values of JWT_SECRET
          Unset,         \* JWT_SECRET is not configured
          MaxRestarts

ASSUME NamesAssumption == Unset \notin Secrets
ASSUME ReadAssumption == Read \in [Passwords -> Passwords]
ASSUME RestartsAssumption == MaxRestarts \in Nat

\* What the table keeps of a password (bcrypt).
Hash(password) == <<"bcrypt", Read[password]>>
UserRow == [email : Emails, username : Usernames,
            password : {Hash(p) : p \in Passwords}]

RegisterDto == [email : Emails, username : Usernames, password : Passwords]
LoginDto == [email : Emails, password : Passwords]

VARIABLES users, requests, tokens, secret, restarts
vars == <<users, requests, tokens, secret, restarts>>

Token == [sub : Nat, email : Emails, username : Usernames, key : Secrets, expired : BOOLEAN]

\* A request at rest, and what its handler knows of it: the user it has created
\* or loaded, and (history) how many users there were when it was read first.
Idle == [kind |-> "none", at |-> "idle", user |-> 0, seen |-> 0, answer |-> "none"]
Answers == {"none", "conflict", "failed", "unauthorized", "notfound", "token", "profile",
            "lost"}

\* Mutant: the spread after the hash puts the plain password back.
NewUserPlain(dto) == [dto EXCEPT !.password = dto.password]
\* The row of a RegisterDto: the spread, then the hash over its password.
NewUser(dto) == [dto EXCEPT !.password = Hash(dto.password)]

\* The payload of user i, signed with JWT_SECRET.
Payload(i) == [sub |-> i, email |-> users[i].email, username |-> users[i].username,
               key |-> secret, expired |-> FALSE]

\* The strategy's key; its default is not what tokens are signed with.
VerifyKey == IF secret = Unset THEN "development-jwt-secret" ELSE secret

-----------------------------------------------------------------------------
Init == /\ users = <<>>
        /\ requests = [r \in Requests |-> Idle]
        /\ tokens = {}
        /\ secret \in Secrets \cup {Unset}
        /\ restarts = 0

InFlight(r) == requests[r].at \notin {"idle", "done"}

Answer(r, a) == requests' = [requests EXCEPT ![r].at = "done", ![r].answer = a]
Go(r, at) == requests' = [requests EXCEPT ![r].at = at]

FindByEmail(email) == {i \in DOMAIN users : users[i].email = email}
FindByUsername(name) == {i \in DOMAIN users : users[i].username = name}

\* register: 409 when the email is known, then the same for the username.
Register(r, dto) ==
    /\ requests[r].at = "idle"
    /\ requests' = [requests EXCEPT ![r] =
           [kind |-> "register", dto |-> dto, user |-> 0, seen |-> Len(users),
            at |-> IF FindByEmail(dto.email) = {} THEN "username" ELSE "done",
            answer |-> IF FindByEmail(dto.email) = {} THEN "none" ELSE "conflict"]]
    /\ UNCHANGED <<users, tokens, secret, restarts>>

\* Mutant: the check of the username is the wrong way round.
CheckUsernameInverted(r) ==
    /\ requests[r].at = "username"
    /\ IF FindByUsername(requests[r].dto.username) # {} THEN Go(r, "create")
                                                       ELSE Answer(r, "conflict")
    /\ UNCHANGED <<users, tokens, secret, restarts>>

CheckUsername(r) ==
    /\ requests[r].at = "username"
    /\ IF FindByUsername(requests[r].dto.username) = {} THEN Go(r, "create")
                                                       ELSE Answer(r, "conflict")
    /\ UNCHANGED <<users, tokens, secret, restarts>>

\* Mutant: the column email is not unique.
UniqueUsername(dto) == FindByUsername(dto.username) = {}
\* The unique columns of the table.
Unique(dto) == FindByEmail(dto.email) = {} /\ FindByUsername(dto.username) = {}

\* UsersService.create: the row is inserted, or the insert fails with status 500.
CreateUser(r) ==
    /\ requests[r].at = "create"
    /\ LET dto == requests[r].dto IN
       IF Unique(dto)
       THEN /\ users' = Append(users, NewUser(dto))
            /\ requests' = [requests EXCEPT ![r].at = "sign", ![r].user = Len(users) + 1]
       ELSE Answer(r, "failed") /\ UNCHANGED users
    /\ UNCHANGED <<tokens, secret, restarts>>

\* sign throws without a secret: the answer is a 500, the user stays created.
Sign(r) ==
    /\ requests[r].at = "sign"
    /\ IF secret = Unset THEN Answer(r, "failed") /\ UNCHANGED tokens
       ELSE Answer(r, "token") /\ tokens' = tokens \cup {Payload(requests[r].user)}
    /\ UNCHANGED <<users, secret, restarts>>

\* login: the user is loaded, its hash is compared, a token is signed.
Login(r, dto) ==
    /\ requests[r].at = "idle"
    /\ requests' = [requests EXCEPT ![r] =
           [kind |-> "login", dto |-> dto, seen |-> Len(users),
            user |-> IF FindByEmail(dto.email) = {} THEN 0
                     ELSE CHOOSE i \in FindByEmail(dto.email) : TRUE,
            at |-> IF FindByEmail(dto.email) = {} THEN "done" ELSE "compare",
            answer |-> IF FindByEmail(dto.email) = {} THEN "unauthorized" ELSE "none"]]
    /\ UNCHANGED <<users, tokens, secret, restarts>>

ComparePassword(r) ==
    /\ requests[r].at = "compare"
    /\ IF users[requests[r].user].password = Hash(requests[r].dto.password)
       THEN Go(r, "sign") ELSE Answer(r, "unauthorized")
    /\ UNCHANGED <<users, tokens, secret, restarts>>

\* A guarded request: the token is verified, then its user is looked up.
Verified(t) == t.key = VerifyKey /\ ~t.expired

GetProfile(r, t) ==
    /\ requests[r].at = "idle"
    /\ requests' = [requests EXCEPT ![r] =
           [kind |-> "profile", token |-> t, seen |-> Len(users),
            user |-> IF Verified(t) THEN t.sub ELSE 0,
            at |-> IF Verified(t) THEN "validate" ELSE "done",
            answer |-> IF Verified(t) THEN "none" ELSE "unauthorized"]]
    /\ UNCHANGED <<users, tokens, secret, restarts>>

\* findById throws a 404 when there is no such user.  The strategy's look-up and the
\* profile's own, of the same id, are one step: rows do not go away between them.
Validate(r) ==
    /\ requests[r].at = "validate"
    /\ Answer(r, IF requests[r].user \in DOMAIN users THEN "profile" ELSE "notfound")
    /\ UNCHANGED <<users, tokens, secret, restarts>>

\* A token passes its expiresIn (24h).
Expire(t) ==
    /\ ~t.expired
    /\ tokens' = (tokens \ {t}) \cup {[t EXCEPT !.expired = TRUE]}
    /\ UNCHANGED <<users, requests, secret, restarts>>

\* The process ends and is started again, perhaps with another environment.
Restart ==
    /\ restarts < MaxRestarts
    /\ restarts' = restarts + 1
    /\ secret' \in Secrets \cup {Unset}
    /\ requests' = [r \in Requests |->
           IF InFlight(r) THEN [requests[r] EXCEPT !.at = "done", !.answer = "lost"]
                          ELSE requests[r]]
    /\ UNCHANGED <<users, tokens>>

HandlerStep(r) == CheckUsername(r) \/ CreateUser(r) \/ Sign(r) \/ ComparePassword(r) \/ Validate(r)

Next == \/ \E r \in Requests : \/ HandlerStep(r)
                               \/ \E dto \in RegisterDto : Register(r, dto)
                               \/ \E dto \in LoginDto : Login(r, dto)
                               \/ \E t \in tokens : GetProfile(r, t)
        \/ \E t \in tokens : Expire(t)
        \/ Restart

Spec == Init /\ [][Next]_vars
=============================================================================
