--------------------------- MODULE UserAuthProofs ---------------------------
(***************************************************************************)
(* Theorems about UserAuth, for any clients, accounts, passwords, lifetime *)
(* of a token and resolution of the clock.                                 *)
(***************************************************************************)
EXTENDS UserAuth, TLAPS

\* A call about an account names one that was issued; what it knows of its password is a
\* password the account had, and the current one unless somebody changed it meanwhile.
Sound(s) ==
    /\ s.pc = "find" =>
         /\ s.email \in Emails
         /\ \A id \in Ids : users[id] # NoUser /\ users[id].email = s.email =>
              users[id].password \in s.held
    /\ s.pc \in {"issue", "verify", "write", "session"} => s.id \in 1..issued
    /\ s.pc \in {"verify", "write"} => s.new \in Passwords
    /\ s.pc = "verify" /\ users[s.id] # NoUser => users[s.id].password \in s.held
    /\ s.pc \in {"issue", "write"} => s.password \in s.held
    /\ s.pc = "write" /\ users[s.id] # NoUser /\ ~s.overtaken => users[s.id].password = s.password

\* An account has an id that was issued.
IdInv == \A id \in Ids : users[id] # NoUser => id \in 1..issued

\* The exp claim holds the whole seconds of the expiry that was answered.
TokenInv ==
    \A t \in tokens : /\ t.sub \in 1..issued
                      /\ t.exp * Resolution <= t.expiresAt
                      /\ t.expiresAt < t.exp * Resolution + Resolution

\* The inductive invariant.
IInv == (\A c \in Clients : Sound(call[c])) /\ IdInv /\ TokenInv


-----------------------------------------------------------------------------
(* Typing.                                                                 *)

\* A division by the resolution of the clock rounds down, by less than one.
LEMMA Rounding ==
  ASSUME NEW t \in Nat
  PROVE  /\ Seconds(t) \in Nat /\ Seconds(t) * Resolution <= t
         /\ t < Seconds(t) * Resolution + Resolution
  <1>1. t \div Resolution \in Nat
    BY ResolutionPositive
  <1>2. (t \div Resolution) * Resolution <= t
    BY ResolutionPositive
  <1>3. t < (t \div Resolution) * Resolution + Resolution
    BY ResolutionPositive
  <1>. QED
    BY <1>1, <1>2, <1>3 DEF Seconds

\* A request that has just ended is well typed, and knows nothing.
LEMMA EndedType ==
  ASSUME NEW outcome \in {"none", "ok", "invalid", "unauthorized", "incorrect", "unchanged", "error"}
  PROVE  /\ Ended(outcome) \in CallState /\ Ended(outcome).pc = "idle"
         /\ Ended(outcome).outcome = outcome /\ NoCall \in CallState
         /\ Sound(Ended(outcome)) /\ Sound(Ended(outcome))'
  <1>1. NoCall \in CallState
    BY DEF NoCall, CallState
  <1>2. Ended(outcome) \in CallState /\ Ended(outcome).pc = "idle" /\ Ended(outcome).outcome = outcome
    BY DEF NoCall, Ended, CallState
  <1>. QED
    BY <1>1, <1>2 DEF Sound

\* The ids that were issued are those of the table.
LEMMA IssuedIds == TypeOK => issued \in Nat /\ issued <= MaxIds /\ 1..issued \subseteq Ids
  BY BoundsAreNaturals DEF TypeOK, Ids

\* A step of one request that leaves the accounts alone.
LEMMA OwnStep ==
  ASSUME TypeOK, IInv, NEW c \in Clients, NEW s \in CallState, Sound(s),
         call' = [call EXCEPT ![c] = s], users' = users, issued' = issued
  PROVE  /\ call' \in [Clients -> CallState] /\ \A d \in Clients : Sound(call[d])'
         /\ IdInv'
  <1>0. call \in [Clients -> CallState]
    BY DEF TypeOK
  <1>1. ASSUME NEW d \in Clients PROVE Sound(call[d])'
    <2>1. PICK x : x = call'[d]
      OBVIOUS
    <2>2. Sound(x)
      BY <1>0, <2>1 DEF IInv
    <2>. QED
      BY <2>1, <2>2 DEF Sound
  <1>. QED
    BY <1>0, <1>1 DEF IInv, IdInv

\* Every step keeps the types and the invariant.
LEMMA NextInv == TypeOK /\ IInv /\ [Next]_vars => TypeOK' /\ IInv'
  <1>. SUFFICES ASSUME TypeOK, IInv, [Next]_vars PROVE TypeOK' /\ IInv'
    OBVIOUS
  <1>0. /\ users \in [Ids -> User \cup {NoUser}] /\ tokens \in SUBSET Token
        /\ call \in [Clients -> CallState] /\ now \in Nat /\ issued \in 0..MaxIds /\ calls \in Nat
        /\ issued \in Nat /\ 1..issued \subseteq Ids
    BY IssuedIds DEF TypeOK
  <1>1. ASSUME NEW c \in Clients, NEW s \in CallState, Sound(s),
               call' = [call EXCEPT ![c] = s], calls' \in Nat, UNCHANGED <<users, tokens, now, issued>>
        PROVE  TypeOK' /\ IInv'
    <2>1. call' \in [Clients -> CallState] /\ (\A d \in Clients : Sound(call[d])') /\ IdInv'
      BY <1>1, OwnStep
    <2>2. TokenInv'
      BY <1>1 DEF IInv, TokenInv
    <2>. QED
      BY <1>0, <1>1, <2>1, <2>2 DEF TypeOK, IInv
  <1>2. ASSUME NEW c \in Clients,
               NEW outcome \in {"none", "ok", "invalid", "unauthorized", "incorrect", "unchanged", "error"},
               Answer(c, outcome), calls' \in Nat, UNCHANGED <<users, tokens, now, issued>>
        PROVE  TypeOK' /\ IInv'
    BY <1>1, <1>2, EndedType DEF Answer
  <1>3. ASSUME NEW c \in Clients, Arrives(c) PROVE calls' \in Nat
    BY <1>0, <1>3 DEF Arrives
  <1>4. ASSUME NEW email \in Emails, NEW password \in Passwords, SeedUser(email, password)
        PROVE  TypeOK' /\ IInv'
    <2>. DEFINE new == issued + 1
    <2>1. /\ new \in Ids /\ issued' = new /\ users[new] = NoUser
          /\ users' = [users EXCEPT ![new] = [email |-> email, password |-> password]]
          /\ UNCHANGED <<tokens, now, calls>>
      BY <1>0, <1>4, BoundsAreNaturals DEF SeedUser, Ids, IInv, IdInv
    <2>2. users' \in [Ids -> User \cup {NoUser}] /\ issued' \in 0..MaxIds
      BY <1>0, <2>1, BoundsAreNaturals DEF User, Ids
    <2>3. ASSUME NEW d \in Clients
          PROVE  /\ call'[d] \in CallState /\ call'[d].pc = call[d].pc
                 /\ call'[d].email = call[d].email /\ call'[d].id = call[d].id
                 /\ call'[d].password = call[d].password /\ call'[d].new = call[d].new
                 /\ call'[d].overtaken = call[d].overtaken
                 /\ call[d].held \subseteq call'[d].held
                 /\ call[d].pc = "find" /\ call[d].email = email => password \in call'[d].held
      <3>1. call[d] \in CallState
        BY <1>0
      <3>2. CASE call[d].pc = "find" /\ call[d].email = email
        <4>1. call'[d] = [call[d] EXCEPT !.held = call[d].held \cup {password}]
          BY <1>4, <3>2 DEF SeedUser
        <4>. QED
          BY <3>1, <4>1 DEF CallState
      <3>3. CASE ~(call[d].pc = "find" /\ call[d].email = email)
        <4>1. call'[d] = call[d]
          BY <1>4, <3>3 DEF SeedUser
        <4>. QED
          BY <3>1, <3>3, <4>1
      <3>. QED
        BY <3>2, <3>3
    <2>4. call' \in [Clients -> CallState]
      BY <1>4, <2>3 DEF SeedUser
    <2>. HIDE DEF new
    <2>5. /\ \A id \in Ids \ {new} : users'[id] = users[id]
          /\ users'[new].email = email /\ users'[new].password = password
      BY <1>0, <2>1
    <2>6. ASSUME NEW d \in Clients PROVE Sound(call[d])'
      <3>1. Sound(call[d])
        BY DEF IInv
      <3>2. new \notin 1..issued /\ 1..issued \subseteq 1..issued'
        BY <1>0, <2>1 DEF new
      <3>3. call[d].pc \in {"issue", "verify", "write", "session"} =>
              /\ call[d].id \in 1..issued' /\ users'[call[d].id] = users[call[d].id]
        BY <1>0, <2>5, <3>1, <3>2 DEF Sound
      <3>4. ASSUME call[d].pc = "find", NEW id \in Ids, users'[id] # NoUser,
                   users'[id].email = call[d].email
            PROVE  users'[id].password \in call'[d].held
        <4>1. CASE id = new
          BY <2>3, <2>5, <3>4, <4>1
        <4>2. CASE id # new
          BY <2>3, <2>5, <3>1, <3>4, <4>2 DEF Sound
        <4>. QED
          BY <4>1, <4>2
      <3>. QED
        BY <2>3, <3>1, <3>3, <3>4 DEF Sound
    <2>7. IdInv'
      BY <1>0, <2>1, <2>5 DEF IInv, IdInv, new
    <2>8. TokenInv'
      BY <1>0, <2>1 DEF IInv, TokenInv, new
    <2>. QED
      BY <1>0, <2>1, <2>2, <2>4, <2>6, <2>7, <2>8 DEF TypeOK, IInv
  <1>5. ASSUME NEW id \in Ids, UserRemoved(id) PROVE TypeOK' /\ IInv'
    <2>1. /\ users' = [users EXCEPT ![id] = NoUser] /\ UNCHANGED <<tokens, call, now, issued, calls>>
          /\ users' \in [Ids -> User \cup {NoUser}]
      BY <1>0, <1>5 DEF UserRemoved
    <2>2. \A i \in Ids : users'[i] # NoUser => users'[i] = users[i] /\ users[i] # NoUser
      BY <1>0, <2>1
    <2>3. ASSUME NEW d \in Clients PROVE Sound(call[d])'
      <3>1. Sound(call[d]) /\ call' = call /\ issued' = issued
        BY <2>1 DEF IInv
      <3>2. call[d].pc \in {"issue", "verify", "write", "session"} => call[d].id \in Ids
        BY <1>0, <3>1 DEF Sound
      <3>. QED
        BY <2>2, <3>1, <3>2 DEF Sound
    <2>4. IdInv' /\ TokenInv'
      BY <2>1, <2>2 DEF IInv, IdInv, TokenInv
    <2>. QED
      BY <1>0, <2>1, <2>3, <2>4 DEF TypeOK, IInv
  <1>6. ASSUME NEW c \in Clients, NEW email \in Emails, NEW password \in Submitted,
               LoginArrives(c, email, password)
        PROVE  TypeOK' /\ IInv'
    <2>. DEFINE held == {users[id].password : id \in EmailOf(email)}
                s == [NoCall EXCEPT !.pc = "find", !.email = email, !.password = password, !.held = held]
    <2>1. CASE password = "long"
      BY <1>2, <1>3, <1>6, <2>1 DEF LoginArrives, Arrives
    <2>2. CASE password # "long"
      <3>1. held \in SUBSET Passwords
        BY <1>0 DEF EmailOf, Present, User
      <3>2. s \in CallState
        BY <3>1, EndedType DEF CallState
      <3>3. s.pc = "find" /\ s.email = email /\ s.held = held
        BY DEF NoCall
      <3>4. \A id \in Ids : users[id] # NoUser /\ users[id].email = email => users[id].password \in held
        BY DEF EmailOf, Present
      <3>5. call' = [call EXCEPT ![c] = s] /\ Arrives(c)
        BY <1>6, <2>2 DEF LoginArrives
      <3>. HIDE DEF s, held
      <3>6. Sound(s)
        BY <3>3, <3>4 DEF Sound
      <3>. QED
        BY <1>1, <1>3, <3>2, <3>5, <3>6 DEF Arrives
    <2>. QED
      BY <2>1, <2>2
  <1>7. ASSUME NEW c \in Clients, FindByEmail(c) PROVE TypeOK' /\ IInv'
    <2>0. calls' \in Nat /\ UNCHANGED <<users, tokens, now, issued>> /\ call[c].pc = "find"
          /\ call[c] \in CallState
      BY <1>0, <1>7 DEF FindByEmail, CallOnly
    <2>1. CASE Answer(c, "unauthorized")
      BY <1>2, <2>0, <2>1
    <2>2. ASSUME NEW id \in EmailOf(call[c].email), Verifies(call[c].password, users[id]),
                 call' = [call EXCEPT ![c].pc = "issue", ![c].id = id]
          PROVE  TypeOK' /\ IInv'
      <3>. DEFINE s == [call[c] EXCEPT !.pc = "issue", !.id = id]
      <3>1. id \in Ids /\ users[id] # NoUser /\ users[id].email = call[c].email
        BY DEF EmailOf, Present
      <3>2. id \in 1..issued /\ id \in Nat
        BY <3>1 DEF IInv, IdInv
      <3>3. s \in CallState /\ s.pc = "issue" /\ s.id = id /\ s.held = call[c].held
            /\ s.password = call[c].password
        BY <2>0, <3>2 DEF CallState
      <3>4. call[c].password \in call[c].held
        BY <2>0, <2>2, <3>1 DEF IInv, Sound, Verifies
      <3>5. call' = [call EXCEPT ![c] = s]
        BY <1>0, <2>2
      <3>. HIDE DEF s
      <3>6. Sound(s)
        BY <3>2, <3>3, <3>4 DEF Sound
      <3>. QED
        BY <1>1, <2>0, <3>3, <3>5, <3>6
    <2>. QED
      BY <1>7, <2>1, <2>2 DEF FindByEmail
  <1>8. ASSUME NEW c \in Clients, Issue(c) PROVE TypeOK' /\ IInv'
    <2>. DEFINE t == Claims(call[c].id, now)
    <2>1. /\ tokens' = tokens \cup {t} /\ call' = [call EXCEPT ![c] = Ended("ok")]
          /\ UNCHANGED <<users, now, issued, calls>> /\ call[c].pc = "issue"
      BY <1>8 DEF Issue, Answer
    <2>2. call[c].id \in 1..issued /\ call[c].id \in Ids
      BY <1>0, <2>1 DEF IInv, Sound
    <2>3. now + TTL \in Nat
      BY <1>0, TTLNatural
    <2>4. /\ t.sub = call[c].id /\ t.exp = Seconds(now + TTL) /\ t.expiresAt = now + TTL
          /\ t = [sub |-> call[c].id, exp |-> Seconds(now + TTL), expiresAt |-> now + TTL]
      BY DEF Claims
    <2>5. t \in Token /\ t.exp * Resolution <= t.expiresAt
          /\ t.expiresAt < t.exp * Resolution + Resolution
      BY <2>2, <2>3, <2>4, Rounding DEF Token
    <2>. HIDE DEF t
    <2>6. TokenInv'
      BY <2>1, <2>2, <2>4, <2>5 DEF IInv, TokenInv
    <2>7. call' \in [Clients -> CallState] /\ (\A d \in Clients : Sound(call[d])') /\ IdInv'
      BY <2>1, EndedType, OwnStep
    <2>. QED
      BY <1>0, <2>1, <2>5, <2>6, <2>7 DEF TypeOK, IInv
  <1>9. ASSUME NEW c \in Clients, NEW token \in tokens, SessionArrives(c, token) PROVE TypeOK' /\ IInv'
    <2>0. calls' \in Nat /\ UNCHANGED <<users, tokens, now, issued>>
      BY <1>3, <1>9 DEF SessionArrives, Arrives
    <2>1. CASE Expired(c, token)
      BY <1>2, <2>0, <2>1 DEF Expired
    <2>2. CASE call' = [call EXCEPT ![c] = [NoCall EXCEPT !.pc = "session", !.id = token.sub]]
      <3>. DEFINE s == [NoCall EXCEPT !.pc = "session", !.id = token.sub]
      <3>1. token.sub \in 1..issued /\ token.sub \in Nat
        BY DEF IInv, TokenInv
      <3>2. s \in CallState
        BY <3>1, EndedType DEF CallState
      <3>3. s.pc = "session" /\ s.id = token.sub
        BY DEF NoCall
      <3>. HIDE DEF s
      <3>4. Sound(s)
        BY <3>1, <3>3 DEF Sound
      <3>. QED
        BY <1>1, <2>0, <2>2, <3>2, <3>4 DEF s
    <2>. QED
      BY <1>9, <2>1, <2>2 DEF SessionArrives
  <1>10. ASSUME NEW c \in Clients, Session(c) PROVE TypeOK' /\ IInv'
    BY <1>0, <1>2, <1>10 DEF Session, CallOnly
  <1>11. ASSUME NEW c \in Clients, NEW token \in tokens, NEW current \in Submitted, NEW new \in Submitted,
                ChangeArrives(c, token, current, new)
         PROVE  TypeOK' /\ IInv'
    <2>. DEFINE held == {users[id].password : id \in {i \in {token.sub} : Present(i)}}
                s == [NoCall EXCEPT !.pc = "verify", !.id = token.sub, !.password = current,
                                    !.new = new, !.held = held]
    <2>0. calls' \in Nat /\ UNCHANGED <<users, tokens, now, issued>>
      BY <1>3, <1>11 DEF ChangeArrives, Arrives
    <2>1. CASE Answer(c, "unauthorized") \/ Answer(c, "invalid")
      BY <1>2, <2>0, <2>1
    <2>2. CASE Valid(current, new) /\ call' = [call EXCEPT ![c] = s]
      <3>1. token.sub \in 1..issued /\ token.sub \in Nat /\ token.sub \in Ids
        BY <1>0 DEF IInv, TokenInv
      <3>2. held \in SUBSET Passwords
        BY <1>0, <3>1 DEF Present, User
      <3>3. s \in CallState
        BY <3>1, <3>2, EndedType DEF CallState
      <3>4. s.pc = "verify" /\ s.id = token.sub /\ s.new = new /\ s.held = held
        BY DEF NoCall
      <3>5. new \in Passwords /\ (users[token.sub] # NoUser => users[token.sub].password \in held)
        BY <2>2 DEF Valid, Present
      <3>6. call' = [call EXCEPT ![c] = s]
        BY <2>2
      <3>. HIDE DEF s, held
      <3>7. Sound(s)
        BY <3>1, <3>4, <3>5 DEF Sound
      <3>. QED
        BY <1>1, <2>0, <3>3, <3>6, <3>7
    <2>. QED
      BY <1>11, <2>1, <2>2 DEF ChangeArrives, Expired
  <1>12. ASSUME NEW c \in Clients, VerifyCurrent(c) PROVE TypeOK' /\ IInv'
    <2>. DEFINE s == [call[c] EXCEPT !.pc = "write"]
    <2>0. calls' \in Nat /\ UNCHANGED <<users, tokens, now, issued>> /\ call[c].pc = "verify"
          /\ call[c] \in CallState
      BY <1>0, <1>12 DEF VerifyCurrent, CallOnly
    <2>1. CASE Answer(c, "error") \/ Answer(c, "incorrect") \/ Answer(c, "unchanged")
      BY <1>2, <2>0, <2>1
    <2>2. CASE /\ users[call[c].id] # NoUser /\ users[call[c].id].password = call[c].password
               /\ call' = [call EXCEPT ![c].pc = "write"]
      <3>1. /\ s \in CallState /\ s.pc = "write" /\ s.id = call[c].id /\ s.new = call[c].new
            /\ s.password = call[c].password /\ s.held = call[c].held
        BY <2>0 DEF CallState
      <3>2. call' = [call EXCEPT ![c] = s]
        BY <1>0, <2>2
      <3>. HIDE DEF s
      <3>3. Sound(s)
        BY <2>0, <2>2, <3>1 DEF IInv, Sound
      <3>. QED
        BY <1>1, <2>0, <3>1, <3>2, <3>3
    <2>. QED
      BY <1>12, <2>1, <2>2 DEF VerifyCurrent, Present, Verifies
  <1>13. ASSUME NEW c \in Clients, UpdatePasswordHash(c) PROVE TypeOK' /\ IInv'
    <2>. DEFINE id == call[c].id
                new == call[c].new
    <2>0. /\ UNCHANGED <<tokens, now, issued, calls>> /\ call[c].pc = "write"
          /\ id \in 1..issued /\ id \in Ids /\ new \in Passwords
      BY <1>0, <1>13 DEF UpdatePasswordHash, IInv, Sound
    <2>1. CASE ~Present(id)
      BY <1>0, <1>2, <1>13, <2>0, <2>1 DEF UpdatePasswordHash
    <2>2. CASE Present(id)
      <3>1. /\ users' = [users EXCEPT ![id].password = new]
            /\ call' = [d \in Clients |-> IF d = c THEN Ended("ok") ELSE Noticed(d, id)]
        BY <1>13, <2>2 DEF UpdatePasswordHash
      <3>2. users[id] \in User /\ users[id] # NoUser
        BY <1>0, <2>0, <2>2 DEF Present
      <3>. HIDE DEF id, new
      <3>3. /\ users'[id] \in User /\ users'[id].password = new /\ users'[id].email = users[id].email
            /\ \A i \in Ids \ {id} : users'[i] = users[i]
            /\ users' \in [Ids -> User \cup {NoUser}]
        <4>1. [users[id] EXCEPT !.password = new] \in User
          BY <2>0, <3>2 DEF User
        <4>2. users' = [users EXCEPT ![id] = [users[id] EXCEPT !.password = new]]
          BY <1>0, <2>0, <3>1
        <4>. QED
          BY <1>0, <2>0, <3>2, <4>1, <4>2 DEF User
      <3>4. ASSUME NEW d \in Clients, d # c
            PROVE  /\ call'[d] \in CallState /\ call'[d].pc = call[d].pc
                   /\ call'[d].email = call[d].email /\ call'[d].id = call[d].id
                   /\ call'[d].password = call[d].password /\ call'[d].new = call[d].new
                   /\ call[d].held \subseteq call'[d].held
                   /\ call[d].id = id \/ (call[d].pc = "find" /\ call[d].email = users[id].email) =>
                        new \in call'[d].held
                   /\ call'[d].overtaken <=>
                        call[d].overtaken \/ (call[d].pc = "write" /\ call[d].id = id)
        <4>. DEFINE held == IF call[d].id = id \/ (call[d].pc = "find" /\ call[d].email = users[id].email)
                            THEN call[d].held \cup {users'[id].password} ELSE call[d].held
                    late == call[d].overtaken \/ (call[d].pc = "write" /\ call[d].id = id)
        <4>1. call[d] \in CallState
          BY <1>0
        <4>2. call'[d] = [call[d] EXCEPT !.held = held, !.overtaken = late]
          BY <3>1, <3>4 DEF Noticed
        <4>3. held \in SUBSET Passwords /\ late \in BOOLEAN /\ call[d].held \subseteq held
          BY <2>0, <3>3, <4>1 DEF CallState
        <4>4. call[d].id = id \/ (call[d].pc = "find" /\ call[d].email = users[id].email) => new \in held
          BY <3>3
        <4>. HIDE DEF held, late
        <4>5. /\ call'[d] \in CallState /\ call'[d].pc = call[d].pc
              /\ call'[d].email = call[d].email /\ call'[d].id = call[d].id
              /\ call'[d].password = call[d].password /\ call'[d].new = call[d].new
              /\ call'[d].held = held /\ call'[d].overtaken = late
          BY <4>1, <4>2, <4>3 DEF CallState
        <4>. QED
          BY <4>3, <4>4, <4>5 DEF late
      <3>5. call' \in [Clients -> CallState]
        BY <3>1, <3>4, EndedType
      <3>6. ASSUME NEW d \in Clients, d # c PROVE Sound(call[d])'
        <4>1. Sound(call[d]) /\ issued' = issued
          BY <2>0 DEF IInv
        <4>2. call[d].pc \in {"issue", "verify", "write", "session"} => call[d].id \in Ids
          BY <1>0, <4>1 DEF Sound
        <4>3. ASSUME call[d].pc = "find", NEW i \in Ids, users'[i] # NoUser,
                     users'[i].email = call[d].email
              PROVE  users'[i].password \in call'[d].held
          <5>1. CASE i = id
            BY <3>3, <3>4, <3>6, <4>3, <5>1
          <5>2. CASE i # id
            BY <3>3, <3>4, <3>6, <4>1, <4>3, <5>2 DEF Sound
          <5>. QED
            BY <5>1, <5>2
        <4>4. ASSUME call[d].pc = "verify", users'[call[d].id] # NoUser
              PROVE  users'[call[d].id].password \in call'[d].held
          <5>1. CASE call[d].id = id
            BY <3>3, <3>4, <3>6, <5>1
          <5>2. CASE call[d].id # id
            BY <3>3, <3>4, <3>6, <4>1, <4>2, <4>4, <5>2 DEF Sound
          <5>. QED
            BY <5>1, <5>2
        <4>5. ASSUME call[d].pc = "write", users'[call[d].id] # NoUser, ~call'[d].overtaken
              PROVE  users'[call[d].id].password = call[d].password
          <5>1. call[d].id # id /\ ~call[d].overtaken
            BY <3>4, <3>6, <4>5
          <5>. QED
            BY <3>3, <4>1, <4>2, <4>5, <5>1 DEF Sound
        <4>. QED
          BY <3>4, <3>6, <4>1, <4>3, <4>4, <4>5 DEF Sound
      <3>7. Sound(call[c])'
        <4>1. call'[c] = Ended("ok")
          BY <3>1
        <4>2. call'[c].pc = "idle"
          BY <4>1, EndedType
        <4>. QED
          BY <4>2 DEF Sound
      <3>8. IdInv' /\ TokenInv'
        BY <2>0, <3>3 DEF IInv, IdInv, TokenInv
      <3>. QED
        BY <1>0, <2>0, <3>3, <3>5, <3>6, <3>7, <3>8 DEF TypeOK, IInv
    <2>. QED
      BY <2>1, <2>2
  <1>14. ASSUME NEW c \in Clients, RefusedWithoutToken(c) PROVE TypeOK' /\ IInv'
    BY <1>2, <1>3, <1>14 DEF RefusedWithoutToken, Arrives
  <1>15. ASSUME NEW c \in Clients, StepFails(c) PROVE TypeOK' /\ IInv'
    BY <1>0, <1>2, <1>15 DEF StepFails, CallOnly
  <1>16. CASE Tick
    <2>1. UNCHANGED <<users, tokens, call, issued, calls>> /\ now' \in Nat
      BY <1>0, <1>16 DEF Tick
    <2>. QED
      BY <1>0, <2>1 DEF TypeOK, IInv, Sound, IdInv, TokenInv
  <1>17. CASE UNCHANGED vars
    BY <1>0, <1>17 DEF vars, TypeOK, IInv, Sound, IdInv, TokenInv
  <1>. QED
    BY <1>4, <1>5, <1>6, <1>7, <1>8, <1>9, <1>10, <1>11, <1>12, <1>13, <1>14, <1>15, <1>16, <1>17
       DEF Next, Requests, Step


-----------------------------------------------------------------------------
(* The theorems.                                                           *)

\* The inductive invariant: what a request knows of the account it is about, ids and tokens.
THEOREM Invariant == Spec => [](TypeOK /\ IInv)
  <1>1. Init => TypeOK /\ IInv
    <2>. SUFFICES ASSUME Init PROVE TypeOK /\ IInv
      OBVIOUS
    <2>1. TypeOK
      BY EndedType, BoundsAreNaturals DEF Init, TypeOK
    <2>2. \A c \in Clients : call[c].pc = "idle"
      BY DEF Init, NoCall
    <2>. QED
      BY <2>1, <2>2 DEF Init, IInv, Sound, IdInv, TokenInv
  <1>. QED
    BY <1>1, NextInv, PTL DEF Spec

\* Accounts, tokens and requests keep their types.
THEOREM TypeCorrect == Spec => []TypeOK
  BY Invariant, PTL

\* Whatever the lifetime and the fraction of the second a token was issued in: none is accepted
\* at its expiry or later, none is refused a full second before it.
THEOREM TokenLifetimeHolds == Spec => []TokenLifetime
  <1>1. TypeOK /\ IInv => TokenLifetime
    <2>. SUFFICES ASSUME TypeOK, IInv, NEW t \in tokens
                  PROVE  /\ Live(t) => now < t.expiresAt
                         /\ now + Resolution <= t.expiresAt => Live(t)
      BY DEF TokenLifetime
    <2>1. /\ t.exp * Resolution <= t.expiresAt /\ t.expiresAt < t.exp * Resolution + Resolution
          /\ now \in Nat /\ Resolution \in Nat /\ t \in Token
      BY ResolutionPositive DEF TypeOK, IInv, TokenInv
    <2>2. PICK p \in Nat : p = t.exp * Resolution
      BY <2>1 DEF Token
    <2>3. t.expiresAt \in Nat
      BY <2>1 DEF Token
    <2>. QED
      BY <2>1, <2>2, <2>3 DEF Live
  <1>. QED
    BY <1>1, Invariant, PTL

\* Every token and every change of a password is had with a password that the account had
\* while the request was served.
THEOREM PasswordWasCurrentHolds == Spec => PasswordWasCurrent
  <1>. DEFINE Current(c) == call[c].pc \in {"issue", "write"} /\ call'[c].outcome = "ok" =>
                              call[c].password \in call[c].held
  <1>1. IInv => \A c \in Clients : Current(c)
    BY DEF IInv, Sound
  <1>2. IInv /\ [Next]_vars => [\A c \in Clients : Current(c)]_vars
    BY <1>1
  <1>. QED
    BY <1>2, Invariant, PTL DEF Spec, PasswordWasCurrent

\* An account's password is replaced only by a request that proved to know it or that was
\* overtaken by another change.
THEOREM OnlyOverlapsOverwriteHolds == Spec => OnlyOverlapsOverwrite
  <1>. DEFINE Proved(id) ==
         Present(id) /\ Present(id)' /\ users'[id].password # users[id].password =>
           \E c \in Clients : /\ call[c].pc = "write" /\ call[c].id = id
                              /\ users'[id].password = call[c].new
                              /\ users[id].password = call[c].password \/ call[c].overtaken
  <1>1. ASSUME TypeOK, IInv, Next, NEW id \in Ids PROVE Proved(id)
    <2>0. users \in [Ids -> User \cup {NoUser}] /\ issued \in Nat /\ 1..issued \subseteq Ids
      BY <1>1, IssuedIds DEF TypeOK
    <2>1. CASE users' = users
      BY <2>1
    <2>2. ASSUME NEW email \in Emails, NEW password \in Passwords, SeedUser(email, password)
          PROVE  Proved(id)
      <3>1. issued + 1 \notin 1..issued
        BY <2>0
      <3>2. ~Present(issued + 1) \/ issued + 1 \notin Ids
        BY <1>1, <3>1 DEF IInv, IdInv, Present
      <3>3. Present(id) => users'[id] = users[id]
        BY <2>0, <2>2, <3>2 DEF SeedUser
      <3>. QED
        BY <3>3
    <2>3. ASSUME NEW i \in Ids, UserRemoved(i) PROVE Proved(id)
      BY <2>0, <2>3 DEF UserRemoved, Present
    <2>4. ASSUME NEW c \in Clients, UpdatePasswordHash(c), Present(call[c].id) PROVE Proved(id)
      <3>1. call[c].pc = "write" /\ users' = [users EXCEPT ![call[c].id].password = call[c].new]
        BY <2>4 DEF UpdatePasswordHash
      <3>2. call[c].id \in Ids /\ Sound(call[c])
        BY <1>1, <2>0, <3>1 DEF IInv, Sound
      <3>3. users[call[c].id] \in User /\ users[call[c].id] # NoUser
        BY <2>0, <2>4, <3>2 DEF Present
      <3>4. users'[call[c].id].password = call[c].new
        BY <2>0, <3>1, <3>2, <3>3 DEF User
      <3>5. users[call[c].id].password = call[c].password \/ call[c].overtaken
        BY <3>1, <3>2, <3>3 DEF Sound
      <3>6. id # call[c].id => users'[id] = users[id]
        BY <2>0, <3>1
      <3>. QED
        BY <3>1, <3>4, <3>5, <3>6
    <2>5. ASSUME NEW c \in Clients, UpdatePasswordHash(c), ~Present(call[c].id) PROVE users' = users
      BY <2>5 DEF UpdatePasswordHash
    <2>6. ASSUME NEW c \in Clients, Requests(c) PROVE users' = users
      BY <2>6 DEF Requests, LoginArrives, RefusedWithoutToken, SessionArrives, ChangeArrives, Arrives
    <2>7. ASSUME NEW c \in Clients, FindByEmail(c) \/ Issue(c) \/ Session(c) \/ VerifyCurrent(c) \/ StepFails(c)
          PROVE  users' = users
      BY <2>7 DEF FindByEmail, Issue, Session, VerifyCurrent, StepFails, CallOnly
    <2>8. Tick => users' = users
      BY DEF Tick
    <2>. HIDE DEF Proved
    <2>. QED
      BY <1>1, <2>1, <2>2, <2>3, <2>4, <2>5, <2>6, <2>7, <2>8 DEF Next, Step
  <1>. HIDE DEF Proved
  <1>2. TypeOK /\ IInv /\ [Next]_vars => [\A id \in Ids : Proved(id)]_vars
    BY <1>1
  <1>. QED
    BY <1>2, Invariant, PTL DEF Spec, OnlyOverlapsOverwrite, Proved

=============================================================================
