------------------------- MODULE AccountProperties -------------------------
(***************************************************************************)
(* What registration and login promise when requests race, the process is  *)
(* restarted between two steps, or the token cannot be signed.             *)
(***************************************************************************)
EXTENDS Accounts

Registrations == {r \in Requests : requests[r].kind = "register"}
Logins == {r \in Requests : requests[r].kind = "login"}
\* The users that hold the email or the username of registration r.
Holders(r) == {i \in DOMAIN users : /\ r \in Registrations
                                    /\ \/ users[i].email = requests[r].dto.email
                                       \/ users[i].username = requests[r].dto.username}

\* Rows, requests and tokens have their types.
TypeOK ==
    /\ users \in Seq(UserRow)
    /\ secret \in Secrets \cup {Unset}
    /\ restarts \in 0..MaxRestarts
    /\ \A t \in tokens : t \in Token
    /\ \A r \in Requests :
          /\ requests[r].kind \in {"none", "register", "login", "profile"}
          /\ requests[r].at \in {"idle", "username", "create", "sign", "compare", "validate", "done"}
          /\ requests[r].answer \in Answers
          /\ requests[r].user \in 0..Len(users) /\ requests[r].seen \in 0..Len(users)
          /\ requests[r].kind = "register" => requests[r].dto \in RegisterDto
          /\ requests[r].kind = "login" => requests[r].dto \in LoginDto
          /\ requests[r].kind = "profile" => requests[r].token \in Token

\* However registrations of one email or username race (auth.service.ts:17-34 reads
\* before it inserts), every account is the work of exactly one of them and no two
\* accounts share a name: the unique columns decide, not the checks.
AccountHasOneMaker ==
    \A i \in DOMAIN users :
        /\ Cardinality({r \in Registrations : requests[r].user = i}) = 1
        /\ \A j \in DOMAIN users \ {i} :
              users[i].email # users[j].email /\ users[i].username # users[j].username

\* A registration that is answered, and not lost with the process, leaves its email or
\* its username taken: racing registrations do not all refuse each other. One answered
\* 409 has left nothing behind; one answered 500 met another's name at the insert or
\* has created its account and could not sign the token.
AnsweredNamesAreHeld ==
    \A r \in Registrations : requests[r].answer \in {"conflict", "failed", "token"} =>
        /\ Holders(r) # {}
        /\ requests[r].answer = "conflict" => requests[r].user = 0

\* The password an account was registered with opens it, also when the registration
\* was never answered or answered 500 and its retry 409, and no other password does but
\* one that bcrypt reads as the same (auth.service.ts:28, 63).
OwnPasswordOpens ==
    \A l \in Logins : requests[l].answer \in {"unauthorized", "token"} =>
        ((\E r \in Registrations :
              /\ requests[r].user \in 1..requests[l].seen
              /\ requests[r].dto.email = requests[l].dto.email
              /\ Read[requests[r].dto.password] = Read[requests[l].dto.password])
         <=> requests[l].answer = "token")
=============================================================================
