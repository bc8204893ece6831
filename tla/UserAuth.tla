----------------------------- MODULE UserAuth ------------------------------
(***************************************************************************)
(* Accounts and bearer tokens: the seed command creates accounts, Login    *)
(* exchanges a password for a token, and the JWTAuth middleware lets the   *)
(* holder of a live token read its session and change its password.        *)
(*                                                                         *)
(* Tokens are stateless: nothing but their signature and their expiry is   *)
(* looked at, so they outlive a change of the password.  Login and         *)
(* ChangePassword verify the password on a copy of the row and act later,  *)
(* and nothing holds the row meanwhile.                                    *)
(*                                                                         *)
(* A hash is represented by the password it verifies, a token by its       *)
(* claims and the expiry that was answered with it.  The clock runs in     *)
(* ticks of a fraction of a second; the exp claim holds whole seconds.     *)
(***************************************************************************)
EXTENDS Naturals

CONSTANTS
    Clients,    \* request goroutines
    Emails,     \* well-formed addresses
    Passwords,  \* passwords of 12 to 72 bytes
    NoUser,     \* the content of an id that is not in the table
    Resolution, \* clock ticks in a second
    TTL,        \* AUTH_JWT_TTL, in ticks
    MaxIds,     \* bound: accounts created
    MaxCalls,   \* bound: requests
    MaxTime     \* bound: clock ticks

ASSUME ResolutionPositive == Resolution \in Nat \ {0}
ASSUME TTLNatural == TTL \in Nat
ASSUME PasswordsComply == {"short", "long"} \cap Passwords = {}
ASSUME BoundsAreNaturals == {MaxIds, MaxCalls, MaxTime} \subseteq Nat

VARIABLES
    users,      \* the users table, by id
    tokens,     \* every token that was issued
    call,       \* the request each client is in, and how its last one ended
    now,        \* the wall clock
    issued,     \* ids given out
    calls       \* requests that arrived (bound)

vars == <<users, tokens, call, now, issued, calls>>

-----------------------------------------------------------------------------
(* Accounts, tokens and requests.                                          *)

Ids == 1..MaxIds
User == [email : Emails, password : Passwords]

\* A password as submitted: "short" is under 12 bytes, "long" over 72.
Submitted == Passwords \cup {"short", "long"}

Token == [sub : Ids, exp : Nat, expiresAt : Nat]

\* "find" and "verify" are before the row is read, "issue" and "write" after the password
\* was verified on it, "session" before the session's row is read.  held and overtaken
\* are history: the passwords the account has had since the request arrived, and whether
\* another request changed it since this one read it.
CallState == [pc : {"idle", "find", "issue", "verify", "write", "session"},
              email : Emails \cup {NoUser}, id : Nat, password : Submitted \cup {NoUser},
              new : Submitted \cup {NoUser}, held : SUBSET Passwords, overtaken : BOOLEAN,
              outcome : {"none", "ok", "invalid", "unauthorized", "incorrect", "unchanged", "error"}]
NoCall == [pc |-> "idle", email |-> NoUser, id |-> 0, password |-> NoUser, new |-> NoUser,
           held |-> {}, overtaken |-> FALSE, outcome |-> "none"]

Present(id) == users[id] # NoUser
EmailOf(email) == {id \in Ids : Present(id) /\ users[id].email = email}

TypeOK ==
    /\ users \in [Ids -> User \cup {NoUser}]
    /\ tokens \in SUBSET Token
    /\ call \in [Clients -> CallState]
    /\ now \in Nat
    /\ issued \in 0..MaxIds
    /\ calls \in Nat

Init ==
    /\ users = [id \in Ids |-> NoUser]
    /\ tokens = {}
    /\ call = [c \in Clients |-> NoCall]
    /\ now = 0
    /\ issued = 0
    /\ calls = 0

Ended(outcome) == [NoCall EXCEPT !.outcome = outcome]

Answer(c, outcome) == call' = [call EXCEPT ![c] = Ended(outcome)]

Arrives(c) ==
    /\ call[c].pc = "idle" /\ calls < MaxCalls
    /\ calls' = calls + 1
    /\ UNCHANGED <<users, tokens, now, issued>>

CallOnly == UNCHANGED <<users, tokens, now, issued, calls>>

-----------------------------------------------------------------------------
(* The seed command.                                                       *)

\* Mutant: seeding an address that has an account sets its password.
SeedUserResets(email, password) ==
    /\ IF EmailOf(email) # {}
       THEN /\ users' = [id \in Ids |-> IF id \in EmailOf(email)
                                        THEN [users[id] EXCEPT !.password = password]
                                        ELSE users[id]]
            /\ UNCHANGED issued
       ELSE /\ issued < MaxIds
            /\ users' = [users EXCEPT ![issued + 1] = [email |-> email, password |-> password]]
            /\ issued' = issued + 1
    /\ UNCHANGED <<tokens, call, now, calls>>

\* SeedUser with a password within its bounds: the unique index on email makes a
\* second run a skip.
SeedUser(email, password) ==
    /\ EmailOf(email) = {} /\ issued < MaxIds
    /\ users' = [users EXCEPT ![issued + 1] = [email |-> email, password |-> password]]
    /\ issued' = issued + 1
    /\ call' = [c \in Clients |-> IF call[c].pc = "find" /\ call[c].email = email
                                  THEN [call[c] EXCEPT !.held = call[c].held \cup {password}]
                                  ELSE call[c]]
    /\ UNCHANGED <<tokens, now, calls>>

\* The row goes away: nothing in the service does that, an operator may.
UserRemoved(id) ==
    /\ Present(id)
    /\ users' = [users EXCEPT ![id] = NoUser]
    /\ UNCHANGED <<tokens, call, now, issued, calls>>

-----------------------------------------------------------------------------
(* Login.                                                                  *)

LoginArrives(c, email, password) ==
    /\ Arrives(c)
    /\ IF password = "long" THEN Answer(c, "invalid")
       ELSE call' = [call EXCEPT ![c] = [NoCall EXCEPT !.pc = "find", !.email = email,
                       !.password = password, !.held = {users[id].password : id \in EmailOf(email)}]]

\* Mutant: the result of Verify is ignored.
VerifiesAll(password, user) == TRUE

\* The hasher's Verify.
Verifies(password, user) == user.password = password

\* An unknown address and a wrong password get the same answer.
FindByEmail(c) ==
    /\ call[c].pc = "find"
    /\ \/ \E id \in EmailOf(call[c].email) :
            /\ Verifies(call[c].password, users[id])
            /\ call' = [call EXCEPT ![c].pc = "issue", ![c].id = id]
       \/ /\ \A id \in EmailOf(call[c].email) : ~Verifies(call[c].password, users[id])
          /\ Answer(c, "unauthorized")
    /\ CallOnly

Seconds(t) == t \div Resolution

\* Mutant: the claim is rounded up.
ClaimsRoundedUp(id, t) ==
    [sub |-> id, exp |-> Seconds(t + TTL) + 1, expiresAt |-> t + TTL]

\* The claims of a token issued at t: jwt.NewNumericDate drops the fraction of a
\* second, the expiry answered to the client keeps it.
Claims(id, t) == [sub |-> id, exp |-> Seconds(t + TTL), expiresAt |-> t + TTL]

Issue(c) ==
    /\ call[c].pc = "issue"
    /\ tokens' = tokens \cup {Claims(call[c].id, now)}
    /\ Answer(c, "ok")
    /\ UNCHANGED <<users, now, issued, calls>>

-----------------------------------------------------------------------------
(* The middleware, Session and ChangePassword.                             *)

\* The parser's check of exp against the clock.
Live(token) == now < token.exp * Resolution

\* A request without a token, or with one that is malformed or of another key.
RefusedWithoutToken(c) == Arrives(c) /\ Answer(c, "unauthorized")

Expired(c, token) == ~Live(token) /\ Answer(c, "unauthorized")

SessionArrives(c, token) ==
    /\ Arrives(c)
    /\ \/ Expired(c, token)
       \/ /\ Live(token)
          /\ call' = [call EXCEPT ![c] = [NoCall EXCEPT !.pc = "session", !.id = token.sub]]

Session(c) ==
    /\ call[c].pc = "session"
    /\ Answer(c, IF Present(call[c].id) THEN "ok" ELSE "unauthorized")
    /\ CallOnly

\* Mutant: only the length that bcrypt reads is checked.
ValidUpToLimit(current, new) == "long" \notin {current, new}

\* No side of the request may be longer than bcrypt reads, and the new password not
\* shorter than the policy's minimum.
Valid(current, new) == current # "long" /\ new \in Passwords

\* Validate comes after the token.
ChangeArrives(c, token, current, new) ==
    /\ Arrives(c)
    /\ \/ Expired(c, token)
       \/ Live(token) /\ ~Valid(current, new) /\ Answer(c, "invalid")
       \/ /\ Live(token) /\ Valid(current, new)
          /\ call' = [call EXCEPT ![c] = [NoCall EXCEPT !.pc = "verify", !.id = token.sub,
                        !.password = current, !.new = new,
                        !.held = {users[id].password : id \in {i \in {token.sub} : Present(i)}}]]

VerifyCurrent(c) ==
    LET id == call[c].id
    IN  /\ call[c].pc = "verify"
        /\ \/ ~Present(id) /\ Answer(c, "error")
           \/ Present(id) /\ ~Verifies(call[c].password, users[id]) /\ Answer(c, "incorrect")
           \/ /\ Present(id) /\ Verifies(call[c].password, users[id])
              /\ IF call[c].new = call[c].password THEN Answer(c, "unchanged")
                 ELSE call' = [call EXCEPT ![c].pc = "write"]
        /\ CallOnly

\* What a change of the account means for the other requests about it.
Noticed(d, id) ==
    [call[d] EXCEPT !.held = IF call[d].id = id \/ (call[d].pc = "find" /\ call[d].email = users[id].email)
                             THEN call[d].held \cup {users'[id].password} ELSE call[d].held,
                    !.overtaken = call[d].overtaken \/ (call[d].pc = "write" /\ call[d].id = id)]

\* UPDATE of the hash by id, whatever the hash is by now.
UpdatePasswordHash(c) ==
    LET id == call[c].id
    IN  /\ call[c].pc = "write"
        /\ IF Present(id)
           THEN /\ users' = [users EXCEPT ![id].password = call[c].new]
                /\ call' = [d \in Clients |-> IF d = c THEN Ended("ok") ELSE Noticed(d, id)]
           ELSE Answer(c, "error") /\ UNCHANGED users
        /\ UNCHANGED <<tokens, now, issued, calls>>

\* A statement, the hasher or the signer fails.
StepFails(c) == call[c].pc # "idle" /\ Answer(c, "error") /\ CallOnly

Tick == now < MaxTime /\ now' = now + 1 /\ UNCHANGED <<users, tokens, call, issued, calls>>

-----------------------------------------------------------------------------
Requests(c) ==
    \/ \E email \in Emails, password \in Submitted : LoginArrives(c, email, password)
    \/ RefusedWithoutToken(c)
    \/ \E token \in tokens :
         SessionArrives(c, token) \/ \E current, new \in Submitted : ChangeArrives(c, token, current, new)

Step(c) == FindByEmail(c) \/ Issue(c) \/ Session(c) \/ VerifyCurrent(c) \/ UpdatePasswordHash(c)
        \/ StepFails(c)

Next ==
    \/ \E email \in Emails, password \in Passwords : SeedUser(email, password)
    \/ \E id \in Ids : UserRemoved(id)
    \/ \E c \in Clients : Requests(c) \/ Step(c)
    \/ Tick

Spec == Init /\ [][Next]_vars

-----------------------------------------------------------------------------
(* Properties.                                                             *)

\* The clock against the two expiries of a token, one truncated: no token is accepted at
\* the expiry its client was told or later, and none is refused a full second before it.
TokenLifetime ==
    \A t \in tokens : /\ Live(t) => now < t.expiresAt
                      /\ now + Resolution <= t.expiresAt => Live(t)

\* A token or a change of password is only ever had with a password that the
\* account had at some moment of the request, however it interleaves with others:
\* never with one that was replaced before the request began.
PasswordWasCurrent ==
    [][\A c \in Clients : call[c].pc \in {"issue", "write"} /\ call'[c].outcome = "ok" =>
         call[c].password \in call[c].held]_vars

\* An account's password is only replaced by a request that proved to know the one it
\* replaces, or that was overtaken by another change; running the seed again never does.
OnlyOverlapsOverwrite ==
    [][\A id \in Ids : Present(id) /\ Present(id)' /\ users'[id].password # users[id].password =>
         \E c \in Clients : /\ call[c].pc = "write" /\ call[c].id = id
                            /\ users'[id].password = call[c].new
                            /\ users[id].password = call[c].password \/ call[c].overtaken]_vars

=============================================================================
