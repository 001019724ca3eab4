--------------------------- MODULE SessionsProofs ---------------------------
(* Theorems about MagicLink, alone and as the abstract SingleUse, and about  *)
(* Sessions, which extends it, for every value of their constants: whatever  *)
(* the operator writes into the configuration, and however often.            *)
EXTENDS Sessions, TLAPS

-----------------------------------------------------------------------------
(* Requests and links *)

\* A stored link has its columns.
LEMMA StoredLink ==
  ASSUME TypeOK, NEW t \in Token, links[t] # NoLink
  PROVE  /\ links[t] \in Link
         /\ links[t].email \in Email
         /\ links[t].expires \in Nat
         /\ links[t].consumed \in BOOLEAN
BY DEF TypeOK, Link

\* A stored account has its columns.
LEMMA StoredUser ==
  ASSUME TypeOK, NEW e \in Email, users[e] # NoUser
  PROVE  /\ users[e] \in User
         /\ users[e].tv \in Nat
         /\ users[e].active \in BOOLEAN
         /\ users[e].by \in Req
BY DEF TypeOK, User

\* A request's state and what follows of it.
LEMMA RequestState ==
  ASSUME TypeOK, NEW r \in Req
  PROVE  /\ tx[r] \in Tx
         /\ tx[r].tv \in Nat
         /\ tx[r].at \in Time
         /\ Time \subseteq Nat
BY TimeAssumption DEF TypeOK, Tx, Time

\* A step that moves only the request r, to a state x that fits the tables,
\* takes no other's link or pending account, and is no sign-in.
LEMMA LocalStep ==
  ASSUME Inv, NEW r \in Req, NEW x \in Tx,
         tx' = [tx EXCEPT ![r] = x], UNCHANGED <<now, links, issued, users>>,
         Fits(x), x.out # "signedin",
         x.pc \in Holding =>
            \A s \in Req \ {r} : HoldsLink(s) => tx[s].token # x.token,
         x.pc = "inserted" =>
            \A s \in Req \ {r} : tx[s].pc = "inserted" => tx[s].email # x.email
  PROVE  Inv'
<1>0. /\ tx'[r] = x
      /\ \A s \in Req \ {r} : tx'[s] = tx[s]
  BY DEF Inv, TypeOK
<1>1. TypeOK'
  BY DEF Inv, TypeOK
<1>2. StoredAsIssued'
  BY DEF Inv, StoredAsIssued
<1>3. ASSUME NEW s \in Req PROVE Fits(tx[s])'
  <2>1. Fits(tx'[s])
    BY <1>0 DEF Inv
  <2> QED BY <2>1 DEF Fits, NamesLink, HoldsLiveLink, KnowsAccount,
                      InsertsFirst, SpentLink, Undecided
<1>4. HoldersApart'
  BY <1>0 DEF Inv, HoldersApart, HoldsLink
<1>5. InsertersApart'
  BY <1>0 DEF Inv, InsertersApart
<1>6. SignsInOnce'
  BY <1>0 DEF Inv, SignsInOnce, SignedIn
<1> QED BY <1>1, <1>2, <1>3, <1>4, <1>5, <1>6 DEF Inv

\* A request that ends without signing in.
LEMMA FinishStep ==
  ASSUME Inv, NEW r \in Req, NEW o \in Outcome, o # "signedin", Finish(r, o),
         UNCHANGED <<now, links, issued, users>>
  PROVE  Inv'
<1> DEFINE x == [tx[r] EXCEPT !.pc = "done", !.out = o]
<1>1. x \in Tx /\ x.pc = "done" /\ x.out = o
  BY DEF Inv, TypeOK, Tx, Phase
<1>2. Fits(x)
  BY <1>1 DEF Fits, NamesLink, HoldsLiveLink, KnowsAccount, InsertsFirst,
              SpentLink, Undecided, Holding
<1>3. tx' = [tx EXCEPT ![r] = x]
  BY DEF Finish
<1> HIDE DEF x
<1> QED BY <1>1, <1>2, <1>3, LocalStep DEF Holding

-----------------------------------------------------------------------------
(* The requests' own steps *)

\* Following a link touches nothing but the request.
LEMMA OpenLinkInv ==
  ASSUME Inv, NEW r \in Req, NEW t \in Token, NEW e \in Email, OpenLink(r, t, e)
  PROVE  Inv'
<1> DEFINE x == [tx[r] EXCEPT !.pc = "locking", !.token = t, !.email = e]
<1>1. /\ x \in Tx /\ x.pc = "locking" /\ x.token = t /\ x.email = e
      /\ x.out = "none"
  BY DEF Inv, TypeOK, Tx, Phase, OpenLink, Fits, Undecided
<1>2. Fits(x)
  BY <1>1 DEF Fits, NamesLink, HoldsLiveLink, KnowsAccount, InsertsFirst,
              SpentLink, Undecided, Holding
<1>3. tx' = [tx EXCEPT ![r] = x] /\ UNCHANGED <<now, links, issued, users>>
  BY DEF OpenLink
<1> HIDE DEF x
<1> QED BY <1>1, <1>2, <1>3, LocalStep DEF Holding

\* The row lock goes to a request that found the link redeemable, and to it
\* alone.
LEMMA LockLinkInv ==
  ASSUME Inv, NEW r \in Req, LockLink(r)
  PROVE  Inv'
<1> DEFINE t == tx[r].token
           x == [tx[r] EXCEPT !.pc = "finding", !.at = now]
<1>1. CASE ~Redeemable(t, tx[r].email)
  BY <1>1, FinishStep DEF LockLink, Locked, Outcome
<1>2. CASE Redeemable(t, tx[r].email)
  <2>1. /\ tx[r].pc = "locking" /\ tx[r].out = "none"
        /\ t \in Token /\ tx[r].email \in Email
    BY DEF LockLink, Inv, Fits, NamesLink, Undecided
  <2>2. /\ x \in Tx /\ x.pc = "finding" /\ x.token = t /\ x.email = tx[r].email
        /\ x.at = now /\ x.out = "none"
    BY <2>1 DEF Inv, TypeOK, Tx, Phase
  <2>3. /\ links[t] # NoLink /\ links[t].email = tx[r].email
        /\ ~links[t].consumed /\ now < links[t].expires
    <3>1. links[t].expires \in Nat /\ now \in Nat
      BY <1>2, <2>1, StoredLink, TimeAssumption
         DEF Inv, Redeemable, TypeOK, Time
    <3> QED BY <1>2, <3>1 DEF Redeemable, Dead
  <2>4. Fits(x)
    BY <2>1, <2>2, <2>3
       DEF Fits, NamesLink, HoldsLiveLink, KnowsAccount, InsertsFirst,
           SpentLink, Undecided, Holding
  <2>5. \A s \in Req \ {r} : HoldsLink(s) => tx[s].token # x.token
    BY <2>2 DEF LockLink, LinkLocked
  <2>6. tx' = [tx EXCEPT ![r] = x] /\ UNCHANGED <<now, links, issued, users>>
    BY <1>2 DEF LockLink, Locked
  <2> HIDE DEF x
  <2> QED BY <2>2, <2>4, <2>5, <2>6, LocalStep
<1> QED BY <1>1, <1>2

\* A request that keeps its link while it moves to another phase.
LEMMA HolderStep ==
  ASSUME Inv, NEW r \in Req, NEW pc \in Holding, NEW v \in Nat, HoldsLink(r),
         tx' = [tx EXCEPT ![r] = [tx[r] EXCEPT !.pc = pc, !.tv = v]],
         UNCHANGED <<now, links, issued, users>>,
         pc = "ready" => /\ users[tx[r].email] # NoUser
                         /\ v <= users[tx[r].email].tv,
         pc = "inserted" =>
            /\ users[tx[r].email] = NoUser /\ v = 0
            /\ \A s \in Req : tx[s].pc = "inserted" => tx[s].email # tx[r].email
  PROVE  Inv'
<1> DEFINE x == [tx[r] EXCEPT !.pc = pc, !.tv = v]
<1>1. /\ tx[r].out = "none" /\ tx[r].token \in Token /\ tx[r].email \in Email
      /\ Fits(tx[r])
  BY DEF Inv, Fits, NamesLink, Undecided, HoldsLink, Holding
<1>2. /\ x \in Tx /\ x.pc = pc /\ x.token = tx[r].token /\ x.email = tx[r].email
      /\ x.at = tx[r].at /\ x.out = "none" /\ x.tv = v
  BY <1>1 DEF Inv, TypeOK, Tx, Phase, Holding
<1> HIDE DEF x
<1>3. Fits(x)
  BY <1>1, <1>2 DEF Fits, NamesLink, HoldsLiveLink, KnowsAccount, InsertsFirst,
                    SpentLink, Undecided, Holding, HoldsLink
<1>4. \A s \in Req \ {r} : HoldsLink(s) => tx[s].token # x.token
  BY <1>2 DEF Inv, HoldersApart
<1>5. tx' = [tx EXCEPT ![r] = x]
  BY DEF x
<1>6. x.pc = "inserted" =>
         \A s \in Req \ {r} : tx[s].pc = "inserted" => tx[s].email # x.email
  BY <1>2
<1>7. x \in Tx /\ x.out # "signedin"
  BY <1>2
<1> QED BY <1>3, <1>4, <1>5, <1>6, <1>7, LocalStep

\* Reading the account only records what was read.
LEMMA FindUserInv ==
  ASSUME Inv, NEW r \in Req, FindUser(r)
  PROVE  Inv'
<1> DEFINE user == users[tx[r].email]
<1>1. HoldsLink(r) /\ tx[r].tv \in Nat /\ tx[r].email \in Email
  BY RequestState DEF FindUser, HoldsLink, Holding, Inv, Fits, NamesLink
<1>2. CASE Goto(r, "signup")
  <2>1. tx' = [tx EXCEPT ![r] = [tx[r] EXCEPT !.pc = "signup", !.tv = tx[r].tv]]
    BY <1>2 DEF Goto, Inv, TypeOK, Tx
  <2> QED BY <1>1, <2>1, HolderStep DEF FindUser, Holding
<1>3. CASE Goto(r, "denying")
  <2>1. tx' = [tx EXCEPT ![r] = [tx[r] EXCEPT !.pc = "denying", !.tv = tx[r].tv]]
    BY <1>3 DEF Goto, Inv, TypeOK, Tx
  <2> QED BY <1>1, <2>1, HolderStep DEF FindUser, Holding
<1>4. CASE user # NoUser
           /\ tx' = [tx EXCEPT ![r].pc = "ready", ![r].tv = user.tv]
  <2>1. user.tv \in Nat
    BY <1>1, <1>4, StoredUser DEF Inv
  <2>2. tx' = [tx EXCEPT ![r] = [tx[r] EXCEPT !.pc = "ready", !.tv = user.tv]]
    BY <1>4
  <2>3. user.tv <= user.tv
    BY <2>1
  <2> QED BY <1>1, <1>4, <2>1, <2>2, <2>3, HolderStep DEF FindUser, Holding
<1>5. \/ Goto(r, "signup")
      \/ Goto(r, "denying")
      \/ user # NoUser /\ tx' = [tx EXCEPT ![r].pc = "ready", ![r].tv = user.tv]
  BY Zenon DEF FindUser
<1> QED BY <1>2, <1>3, <1>4, <1>5

\* An INSERT goes ahead only when the account is neither stored nor pending.
LEMMA InsertUserInv ==
  ASSUME Inv, NEW r \in Req, InsertUser(r)
  PROVE  Inv'
<1>1. HoldsLink(r) /\ tx[r].tv \in Nat
  BY RequestState DEF InsertUser, HoldsLink, Holding, Inv
<1>2. CASE users[tx[r].email] = NoUser
           /\ tx' = [tx EXCEPT ![r].pc = "inserted", ![r].tv = 0]
  <2>1. tx' = [tx EXCEPT ![r] = [tx[r] EXCEPT !.pc = "inserted", !.tv = 0]]
    BY <1>2
  <2>2. \A s \in Req : tx[s].pc = "inserted" => tx[s].email # tx[r].email
    BY DEF InsertUser, AccountPending
  <2> QED BY <1>1, <1>2, <2>1, <2>2, HolderStep DEF InsertUser, Holding
<1>3. CASE Goto(r, "reselect")
  <2>1. tx' = [tx EXCEPT ![r] = [tx[r] EXCEPT !.pc = "reselect", !.tv = tx[r].tv]]
    BY <1>3 DEF Goto, Inv, TypeOK, Tx
  <2> QED BY <1>1, <2>1, HolderStep DEF InsertUser, Holding
<1> QED BY <1>2, <1>3 DEF InsertUser

\* A logout starts from an accepted session, so its account is there.
LEMMA LogoutCheckInv ==
  ASSUME Inv, NEW r \in Req, NEW s \in Req, LogoutCheck(r, s)
  PROVE  Inv'
<1> DEFINE x == [tx[r] EXCEPT !.pc = "bumping", !.email = tx[s].email,
                              !.tv = tx[s].tv]
<1>1. /\ tx[s].email \in Email /\ users[tx[s].email] # NoUser
      /\ tx[s].tv \in Nat
  BY RequestState DEF LogoutCheck, Accepted, Inv, Fits, KnowsAccount
<1>2. /\ x \in Tx /\ x.pc = "bumping" /\ x.email = tx[s].email /\ x.out = "none"
  BY <1>1 DEF Inv, TypeOK, Tx, Phase, LogoutCheck, Fits, Undecided
<1>3. Fits(x)
  BY <1>1, <1>2 DEF Fits, NamesLink, HoldsLiveLink, KnowsAccount, InsertsFirst,
                    SpentLink, Undecided, Holding
<1>4. tx' = [tx EXCEPT ![r] = x] /\ UNCHANGED <<now, links, issued, users>>
  BY DEF LogoutCheck
<1> HIDE DEF x
<1> QED BY <1>2, <1>3, <1>4, LocalStep DEF Holding

-----------------------------------------------------------------------------
(* The steps that write tables *)

\* The steps that write a link only delete it or mark it consumed.
LEMMA StoredAsIssuedKept ==
  ASSUME StoredAsIssued, issued' = issued,
         \A t \in Token : links'[t] # NoLink =>
            /\ links[t] # NoLink
            /\ links'[t].email = links[t].email
            /\ links'[t].expires = links[t].expires
  PROVE  StoredAsIssued'
BY DEF StoredAsIssued

\* No two requests are parted or joined while tx stands.
LEMMA ApartKept ==
  ASSUME Inv, UNCHANGED tx
  PROVE  HoldersApart' /\ InsertersApart' /\ SignsInOnce'
BY DEF Inv, HoldersApart, HoldsLink, InsertersApart, SignsInOnce, SignedIn

\* Deleting links that are dead and not locked disturbs no request.
LEMMA DeleteStep ==
  ASSUME Inv, NEW dead \in SUBSET Token,
         \A d \in dead : links[d] # NoLink /\ ~LinkLocked(d),
         links' = [d \in Token |-> IF d \in dead THEN NoLink ELSE links[d]],
         UNCHANGED <<now, issued, users, tx>>
  PROVE  Inv'
<1>1. TypeOK'
  BY DEF Inv, TypeOK
<1>2. StoredAsIssued'
  BY StoredAsIssuedKept DEF Inv
<1>3. ASSUME NEW r \in Req PROVE Fits(tx[r])'
  <2>1. HoldsLink(r) => tx[r].token \in Token \ dead
    BY DEF Inv, Fits, NamesLink, HoldsLink, LinkLocked
  <2>2. SignedIn(r) => tx[r].token \in Token
    BY DEF Inv, Fits, NamesLink, SignedIn
  <2> DEFINE x == tx[r]
  <2>3. /\ Fits(x)
        /\ x.pc \in Holding => links'[x.token] = links[x.token]
        /\ x.out = "signedin" => links'[x.token] \in {links[x.token], NoLink}
    BY <2>1, <2>2 DEF Inv, HoldsLink, SignedIn
  <2> HIDE DEF x
  <2>4. Fits(x)'
    BY <2>3 DEF Fits, NamesLink, HoldsLiveLink, KnowsAccount, InsertsFirst,
                SpentLink, Undecided, x
  <2> QED BY <2>4 DEF x
<1> QED BY <1>1, <1>2, <1>3, ApartKept DEF Inv

\* The sweep.
LEMMA SweepInv ==
  ASSUME Inv, Sweep
  PROVE  Inv'
<1> DEFINE dead == {d \in Token : Dead(d)}
<1>1. \A d \in dead : links[d] # NoLink /\ ~LinkLocked(d)
  BY DEF Sweep, Dead
<1>2. links' = [d \in Token |-> IF d \in dead THEN NoLink ELSE links[d]]
  BY DEF Sweep
<1> QED BY <1>1, <1>2, DeleteStep DEF Sweep

\* A new link, and the clean-up of the address's dead ones.
LEMMA RequestLinkInv ==
  ASSUME Inv, NEW t \in Token, NEW e \in Email, RequestLink(t, e)
  PROVE  Inv'
<1> DEFINE dead == DeadLinksOf(e)
           new == [email |-> e, expires |-> now + TTL, consumed |-> FALSE]
<1>1. new \in Link /\ new # NoLink
  <2>1. now + TTL \in Nat
    BY TTLAssumption, TimeAssumption DEF Inv, TypeOK, Time
  <2>2. new \in Link
    BY <2>1 DEF Link
  <2> QED BY <2>2, NoLinkAssumption
<1>2. /\ links' = [d \in Token |-> IF d = t THEN new
                                   ELSE IF d \in dead THEN NoLink ELSE links[d]]
      /\ issued' = [issued EXCEPT ![t] = new]
      /\ issued[t] = NoLink /\ links[t] = NoLink
      /\ UNCHANGED <<now, users, tx>>
  BY DEF RequestLink, Inv, StoredAsIssued
<1>3. \A d \in dead : d # t /\ ~LinkLocked(d)
  BY <1>2 DEF RequestLink, DeadLinksOf, Dead
<1>4. new.email = e /\ new.expires = now + TTL
  OBVIOUS
<1> HIDE DEF new, dead
<1>5. TypeOK'
  BY <1>1, <1>2 DEF Inv, TypeOK
<1>6. StoredAsIssued'
  <2> SUFFICES ASSUME NEW d \in Token, links'[d] # NoLink
               PROVE  /\ issued'[d] # NoLink
                      /\ links'[d].email = issued'[d].email
                      /\ links'[d].expires = issued'[d].expires
    BY DEF StoredAsIssued
  <2>1. CASE d = t
    BY <1>1, <1>2, <2>1 DEF Inv, TypeOK
  <2>2. CASE d # t
    BY <1>2, <2>2 DEF Inv, TypeOK, StoredAsIssued
  <2> QED BY <2>1, <2>2
<1>7. ASSUME NEW r \in Req PROVE Fits(tx[r])'
  <2> DEFINE x == tx[r]
  <2>1. /\ Fits(x)
        /\ x.pc \in Holding => x.token \in Token /\ x.token \notin dead
                               /\ links[x.token] # NoLink
    BY <1>3 DEF Inv, Fits, NamesLink, HoldsLiveLink, HoldsLink, LinkLocked
  <2>2. x.out = "signedin" => x.token \in Token /\ x.token # t
    BY <1>2 DEF Inv, Fits, NamesLink, SpentLink
  <2>3. x.pc \in Holding => links'[x.token] = links[x.token]
    BY <1>2, <2>1
  <2>4. x.out = "signedin" => /\ issued'[x.token] = issued[x.token]
                              /\ links'[x.token] \in {links[x.token], NoLink}
    BY <1>2, <2>2 DEF Inv, TypeOK
  <2>5. x' = x
    BY <1>2
  <2> HIDE DEF x
  <2>6. Fits(x)'
    BY <1>2, <2>1, <2>3, <2>4, <2>5
       DEF Fits, NamesLink, HoldsLiveLink, KnowsAccount, InsertsFirst,
           SpentLink, Undecided
  <2> QED BY <2>6 DEF x
<1> QED BY <1>2, <1>5, <1>6, <1>7, ApartKept DEF Inv

\* Writing an account that is stored, without lowering its token_version.
LEMMA AccountStep ==
  ASSUME Inv, NEW e \in Email, NEW u \in User, users[e] # NoUser,
         users[e].tv <= u.tv,
         users' = [users EXCEPT ![e] = u],
         UNCHANGED <<now, links, issued>>,
         NEW r \in Req, NEW x \in Tx, tx' = [tx EXCEPT ![r] = x],
         Fits(x), (x.pc \notin Holding /\ x.out # "signedin") \/ x = tx[r]
  PROVE  Inv'
<1>1. u # NoUser /\ TypeOK'
  BY NoUserAssumption DEF Inv, TypeOK
<1>2. StoredAsIssued'
  BY DEF Inv, StoredAsIssued
<1>3. ASSUME NEW s \in Req PROVE Fits(tx[s])'
  <2> PICK y \in Tx : y = tx'[s]
    BY DEF Inv, TypeOK
  <2>1. Fits(y) /\ y \in Tx /\ y.tv \in Nat
    BY DEF Inv, TypeOK, Tx
  <2>2. \A a \in Email : users[a] # NoUser =>
            users'[a] # NoUser /\ users[a].tv <= users'[a].tv
    <3>1. \A a \in Email : users[a] # NoUser => users[a].tv <= users[a].tv
      BY StoredUser DEF Inv
    <3> QED BY <1>1, <3>1 DEF Inv, TypeOK
  <2>3. y.pc = "inserted" => users'[y.email] = NoUser
    BY <2>1 DEF Inv, TypeOK, Fits, InsertsFirst
  <2>4. y.pc = "ready" => y.email \in Email
    BY <2>1 DEF Fits, KnowsAccount
  <2>5. \A a \in Email : users[a] # NoUser =>
            users[a].tv \in Nat /\ users'[a].tv \in Nat
    BY <1>1, StoredUser DEF Inv, TypeOK, User
  <2>6. KnowsAccount(y)'
    <3>1. CASE y.pc = "ready" \/ y.out = "signedin"
      BY <3>1, <2>1, <2>2, <2>5 DEF Fits, KnowsAccount
    <3>2. CASE ~(y.pc = "ready" \/ y.out = "signedin")
      BY <3>2, <2>1, <2>2 DEF Fits, KnowsAccount
    <3> QED BY <3>1, <3>2
  <2> QED BY <2>1, <2>3, <2>6
          DEF Fits, NamesLink, HoldsLiveLink, InsertsFirst, SpentLink, Undecided
<1>4. \A s \in Req : HoldsLink(s)' => HoldsLink(s) /\ tx'[s] = tx[s]
  BY DEF HoldsLink, Inv, TypeOK
<1>5. \A s \in Req : SignedIn(s)' => SignedIn(s) /\ tx'[s] = tx[s]
  BY DEF SignedIn, Inv, TypeOK
<1>6. HoldersApart' /\ SignsInOnce'
  BY <1>4, <1>5 DEF Inv, HoldersApart, SignsInOnce
<1>7. InsertersApart'
  BY <1>4 DEF Inv, InsertersApart, HoldsLink, Holding
<1> QED BY <1>1, <1>2, <1>3, <1>6, <1>7 DEF Inv

\* A logout everywhere raises the account's token_version.
LEMMA LogoutBumpInv ==
  ASSUME Inv, NEW r \in Req, LogoutBump(r)
  PROVE  Inv'
<1> DEFINE e == tx[r].email
           u == [users[e] EXCEPT !.tv = @ + 1]
           x == [tx[r] EXCEPT !.pc = "done", !.out = "loggedout"]
<1>1. e \in Email /\ users[e] # NoUser
  BY DEF LogoutBump, Inv, Fits, KnowsAccount
<1>2. u \in User /\ users[e].tv <= u.tv
  BY <1>1, StoredUser DEF Inv, User
<1>3. x \in Tx /\ x.pc = "done" /\ x.out = "loggedout"
  BY DEF Inv, TypeOK, Tx, Phase, Outcome
<1>4. Fits(x)
  BY <1>3 DEF Fits, NamesLink, HoldsLiveLink, KnowsAccount, InsertsFirst,
              SpentLink, Undecided, Holding
<1>5. /\ users' = [users EXCEPT ![e] = u]
      /\ tx' = [tx EXCEPT ![r] = x]
      /\ UNCHANGED <<now, links, issued>>
  BY DEF LogoutBump, Finish
<1>6. x.pc \notin Holding /\ x.out # "signedin"
  BY <1>3 DEF Holding
<1> HIDE DEF x, u, e
<1> QED BY <1>1, <1>2, <1>3, <1>4, <1>5, <1>6, AccountStep

\* The administrator's switch keeps the token_version.
LEMMA SetActiveInv ==
  ASSUME Inv, NEW e \in Email, NEW active \in BOOLEAN, SetActive(e, active)
  PROVE  Inv'
<1> DEFINE r == users[e].by
           u == [users[e] EXCEPT !.active = active]
           x == tx[r]
<1>1. users[e] # NoUser /\ r \in Req
  BY StoredUser DEF SetActive, Inv
<1>2. u \in User /\ users[e].tv <= u.tv
  BY <1>1, StoredUser DEF Inv, User
<1>3. x \in Tx /\ Fits(x) /\ tx' = [tx EXCEPT ![r] = x]
  BY <1>1 DEF Inv, TypeOK, SetActive
<1>4. users' = [users EXCEPT ![e] = u] /\ UNCHANGED <<now, links, issued>>
  BY DEF SetActive
<1>5. x = tx[r]
  OBVIOUS
<1> HIDE DEF x, u, r
<1> QED BY <1>1, <1>2, <1>3, <1>4, <1>5, AccountStep

\* The holder of a link consumes it, and its request ends as x: signed in, with
\* the account it read or inserted, or denied.
LEMMA ConsumeStep ==
  ASSUME Inv, NEW r \in Req, HoldsLink(r), NEW o \in {"signedin", "denied"},
         links' = [links EXCEPT ![tx[r].token].consumed = TRUE],
         Finish(r, o),
         UNCHANGED <<now, issued>>,
         users' \in [Email -> User \cup {NoUser}],
         \A e \in Email : users[e] # NoUser => users'[e] = users[e],
         \A s \in Req \ {r} :
            tx[s].pc = "inserted" => users'[tx[s].email] = users[tx[s].email],
         o = "signedin" => /\ users'[tx[r].email] # NoUser
                           /\ tx[r].tv <= users'[tx[r].email].tv
  PROVE  Inv'
<1> DEFINE t == tx[r].token
           l == [links[t] EXCEPT !.consumed = TRUE]
           x == [tx[r] EXCEPT !.pc = "done", !.out = o]
<1>1. /\ t \in Token /\ tx[r].email \in Email
      /\ links[t] # NoLink /\ links[t].email = tx[r].email
      /\ tx[r].at < links[t].expires
      /\ issued[t] # NoLink /\ issued[t].email = links[t].email
      /\ issued[t].expires = links[t].expires
  BY DEF Inv, Fits, NamesLink, HoldsLiveLink, HoldsLink, StoredAsIssued
<1>2. /\ l \in Link /\ l.consumed /\ l.email = links[t].email
      /\ l.expires = links[t].expires /\ l # NoLink
  <2>1. l \in Link /\ l.consumed
    BY <1>1, StoredLink DEF Inv, Link
  <2> QED BY <2>1, <1>1, StoredLink, NoLinkAssumption DEF Inv, Link
<1>3. /\ x \in Tx /\ x.pc = "done" /\ x.out = o /\ x.token = t
      /\ x.email = tx[r].email /\ x.at = tx[r].at /\ x.tv = tx[r].tv
  BY DEF Inv, TypeOK, Tx, Phase, Outcome
<1>4. links' = [links EXCEPT ![t] = l] /\ tx' = [tx EXCEPT ![r] = x]
  BY DEF Finish
<1> HIDE DEF t, l, x
<1>5. TypeOK'
  BY <1>1, <1>2, <1>3, <1>4 DEF Inv, TypeOK
<1>6. StoredAsIssued'
  <2>1. \A a \in Token : links'[a] # NoLink =>
           /\ links[a] # NoLink
           /\ links'[a].email = links[a].email
           /\ links'[a].expires = links[a].expires
    BY <1>1, <1>2, <1>4 DEF Inv, TypeOK
  <2> QED BY <2>1, StoredAsIssuedKept DEF Inv
<1>7. /\ tx'[r] = x /\ links'[t] = l
      /\ \A a \in Token \ {t} : links'[a] = links[a]
      /\ \A s \in Req \ {r} : tx'[s] = tx[s]
  BY <1>1, <1>4 DEF Inv, TypeOK
<1>8. \A s \in Req \ {r} : HoldsLink(s) => tx[s].token # t
  BY DEF Inv, HoldersApart, t
<1>9. \A s \in Req \ {r} : SignedIn(s) => tx[s].token # t
  <2>1. \A s \in Req : SignedIn(s) =>
            links[tx[s].token] = NoLink \/ links[tx[s].token].consumed
    BY DEF Inv, Fits, SpentLink, SignedIn
  <2>2. ~links[t].consumed /\ links[t] # NoLink
    BY <1>1 DEF t, Inv, Fits, HoldsLiveLink, HoldsLink
  <2> QED BY <2>1, <2>2
<1>10. Fits(tx[r])'
  BY <1>1, <1>2, <1>3, <1>7
     DEF Fits, NamesLink, HoldsLiveLink, KnowsAccount, InsertsFirst, SpentLink,
         Undecided, Holding
<1>11. ASSUME NEW s \in Req, s # r PROVE Fits(tx[s])'
  <2> PICK y \in Tx : y = tx[s] /\ y = tx'[s]
    BY <1>7, <1>11 DEF Inv, TypeOK
  <2>1. Fits(y)
    BY DEF Inv
  <2>2. y.pc \in Holding => y.token \in Token \ {t}
    BY <2>1, <1>8, <1>11 DEF Fits, NamesLink, HoldsLink
  <2>3. y.out = "signedin" => y.token \in Token \ {t}
    BY <2>1, <1>9, <1>11 DEF Fits, NamesLink, SignedIn
  <2>4. y.pc \in Holding \/ y.out = "signedin" => links'[y.token] = links[y.token]
    BY <2>2, <2>3, <1>7
  <2>5. KnowsAccount(y)'
    BY <2>1 DEF Fits, KnowsAccount
  <2>6. InsertsFirst(y)'
    BY <2>1, <1>11 DEF Fits, InsertsFirst
  <2> QED BY <2>1, <2>4, <2>5, <2>6
          DEF Fits, NamesLink, HoldsLiveLink, SpentLink, Undecided
<1>12. HoldersApart' /\ InsertersApart'
  BY <1>3, <1>7 DEF Inv, HoldersApart, InsertersApart, HoldsLink, Holding
<1>13. SignsInOnce'
  BY <1>3, <1>7, <1>9 DEF Inv, SignsInOnce, SignedIn
<1> QED BY <1>5, <1>6, <1>10, <1>11, <1>12, <1>13 DEF Inv

\* The refusal of an inactive account consumes its link.
LEMMA DenyInv ==
  ASSUME Inv, NEW r \in Req, Deny(r)
  PROVE  Inv'
<1>1. HoldsLink(r)
  BY DEF Deny, HoldsLink, Holding
<1>2. users' \in [Email -> User \cup {NoUser}]
  BY DEF Deny, Inv, TypeOK
<1> QED BY <1>1, <1>2, ConsumeStep DEF Deny

\* A sign-in consumes its link; if it inserted the account, no other request
\* has it pending.
LEMMA SignInInv ==
  ASSUME Inv, NEW r \in Req, SignIn(r)
  PROVE  Inv'
<1> DEFINE e == tx[r].email
           u == NewUser(r)
<1>1. HoldsLink(r)
  BY DEF SignIn, HoldsLink, Holding
<1>2. CASE tx[r].pc = "ready"
  <2>1. users' = users /\ users[e] # NoUser /\ tx[r].tv <= users[e].tv
    BY <1>2 DEF SignIn, Inv, Fits, KnowsAccount
  <2>2. users' \in [Email -> User \cup {NoUser}]
    BY <2>1 DEF Inv, TypeOK
  <2> QED BY <1>1, <2>1, <2>2, ConsumeStep DEF SignIn
<1>3. CASE tx[r].pc = "inserted"
  <2>1. u \in User /\ u.tv = 0 /\ u # NoUser
    <3>1. u \in User /\ u.tv = 0
      BY DEF NewUser, User
    <3> QED BY <3>1, NoUserAssumption
  <2>2. e \in Email /\ users[e] = NoUser /\ tx[r].tv = 0
    BY <1>1, <1>3 DEF Inv, Fits, NamesLink, InsertsFirst, HoldsLink
  <2>3. users' = [users EXCEPT ![e] = u]
    BY <1>3 DEF SignIn
  <2>4. \A s \in Req \ {r} : tx[s].pc = "inserted" => tx[s].email # e
    BY <1>3 DEF Inv, InsertersApart
  <2> HIDE DEF u
  <2>5. /\ users' \in [Email -> User \cup {NoUser}]
        /\ users'[e] = u
        /\ \A a \in Email \ {e} : users'[a] = users[a]
    BY <2>1, <2>2, <2>3 DEF Inv, TypeOK
  <2>6. \A s \in Req \ {r} :
            tx[s].pc = "inserted" => users'[tx[s].email] = users[tx[s].email]
    BY <2>4, <2>5 DEF Inv, Fits, NamesLink, Holding
  <2>7. users'[e] # NoUser /\ tx[r].tv <= users'[e].tv
    BY <2>1, <2>2, <2>5
  <2> QED BY <1>1, <2>2, <2>5, <2>6, <2>7, ConsumeStep DEF SignIn
<1> QED BY <1>2, <1>3 DEF SignIn

-----------------------------------------------------------------------------
(* The invariant *)

\* Before any request nothing is stored.
LEMMA InitInv == Init => Inv
<1> SUFFICES ASSUME Init PROVE Inv
  OBVIOUS
<1>1. IdleTx \in Tx
  BY TimeAssumption DEF IdleTx, Tx, Phase, Time, Outcome
<1>2. IdleTx.pc = "idle" /\ IdleTx.out = "none"
  BY DEF IdleTx
<1>3. TypeOK
  BY <1>1, TimeAssumption DEF Init, TypeOK, Time
<1>4. \A r \in Req : Fits(tx[r])
  BY <1>2 DEF Init, Fits, NamesLink, HoldsLiveLink, KnowsAccount, InsertsFirst,
              SpentLink, Undecided, Holding
<1>5. HoldersApart /\ InsertersApart /\ SignsInOnce
  BY <1>2 DEF Init, HoldersApart, InsertersApart, SignsInOnce, HoldsLink,
              Holding, SignedIn
<1> QED BY <1>3, <1>4, <1>5 DEF Inv, StoredAsIssued, Init

\* The clock moves nothing else.
LEMMA TickInv == Inv /\ Tick => Inv'
<1> SUFFICES ASSUME Inv, Tick PROVE Inv'
  OBVIOUS
<1>1. TypeOK'
  BY TimeAssumption DEF Tick, Inv, TypeOK, Time
<1>2. \A r \in Req : Fits(tx[r])'
  BY DEF Tick, Inv, Fits, NamesLink, HoldsLiveLink, KnowsAccount, InsertsFirst,
         SpentLink, Undecided
<1> QED BY <1>1, <1>2, ApartKept DEF Tick, Inv, StoredAsIssued

\* A stuttering step.
LEMMA StutterInv == Inv /\ UNCHANGED vars => Inv'
BY DEF vars, Inv, TypeOK, StoredAsIssued, Fits, NamesLink, HoldsLiveLink,
       KnowsAccount, InsertsFirst, SpentLink, Undecided, HoldersApart,
       HoldsLink, InsertersApart, SignsInOnce, SignedIn

\* Every step keeps the invariant.
LEMMA NextInv == Inv /\ [Next]_vars => Inv'
<1> SUFFICES ASSUME Inv, [Next]_vars PROVE Inv'
  OBVIOUS
<1>1. ASSUME NEW r \in Req, Arrive(r) PROVE Inv'
  BY <1>1, OpenLinkInv, LogoutCheckInv DEF Arrive
<1>2. ASSUME NEW r \in Req, Step(r) PROVE Inv'
  BY <1>2, LockLinkInv, FindUserInv, InsertUserInv, SignInInv, DenyInv,
     LogoutBumpInv DEF Step
<1>3. ASSUME NEW r \in Req, Rollback(r) PROVE Inv'
  BY <1>3, FinishStep DEF Rollback, Outcome
<1>4. CASE Environment
  BY <1>4, RequestLinkInv, SetActiveInv, TickInv DEF Environment
<1>5. CASE UNCHANGED vars
  BY <1>5, StutterInv
<1> QED BY <1>1, <1>2, <1>3, <1>4, <1>5, SweepInv DEF Next, Quiet

\* The invariant holds in every reachable state.
THEOREM Invariance == Spec => []Inv
BY InitInv, NextInv, PTL DEF Spec

\* Every variable keeps its type (the columns of login_tokens and users).
THEOREM TypeCorrect == Spec => []TypeOK
<1>1. Inv => TypeOK
  BY DEF Inv
<1> QED BY <1>1, Invariance, PTL

\* The row lock and consumed_at make a link single-use: however many requests
\* verify it at once, and however they fail, at most one is signed in.
THEOREM SingleSignIn == Spec => []SignsInOnce
<1>1. Inv => SignsInOnce
  BY DEF Inv
<1> QED BY <1>1, Invariance, PTL

\* A session is only minted for the address its link was sent to, and before
\* that link expired.
THEOREM SignInHonoursLink == Spec => []LinkHonoured
<1>1. Inv => LinkHonoured
  BY DEF Inv, LinkHonoured, Fits, SpentLink, SignedIn
<1> QED BY <1>1, Invariance, PTL

-----------------------------------------------------------------------------
(* What a step may not do *)

\* A stored account keeps its inserter, and its token_version never falls.
LEMMA AccountsKept ==
  ASSUME Inv, [Next]_vars, NEW e \in Email, users[e] # NoUser
  PROVE  /\ users'[e] # NoUser
         /\ users'[e].by = users[e].by
         /\ users'[e].tv >= users[e].tv
<1>0. /\ users[e].tv \in Nat /\ users[e].by \in Req /\ users[e] \in User
  BY StoredUser DEF Inv
<1>1. CASE users' = users
  BY <1>0, <1>1
<1>2. ASSUME NEW r \in Req, SignIn(r) PROVE users'[e] = users[e]
  BY <1>2 DEF SignIn, Inv, TypeOK, Fits, InsertsFirst
<1>3. ASSUME NEW r \in Req, LogoutBump(r)
      PROVE  users'[e] \in {users[e], [users[e] EXCEPT !.tv = @ + 1]}
  BY <1>3 DEF LogoutBump, Inv, TypeOK
<1>4. ASSUME NEW a \in Email, NEW on \in BOOLEAN, SetActive(a, on)
      PROVE  users'[e] \in {users[e], [users[e] EXCEPT !.active = on]}
  BY <1>4 DEF SetActive, Inv, TypeOK
<1>5. \A on \in BOOLEAN :
         /\ [users[e] EXCEPT !.active = on] \in User
         /\ [users[e] EXCEPT !.active = on].by = users[e].by
         /\ [users[e] EXCEPT !.active = on].tv = users[e].tv
  BY <1>0 DEF User
<1>6. /\ [users[e] EXCEPT !.tv = @ + 1] \in User
      /\ [users[e] EXCEPT !.tv = @ + 1].by = users[e].by
      /\ [users[e] EXCEPT !.tv = @ + 1].tv = users[e].tv + 1
  BY <1>0 DEF User
<1>7. \/ users' = users
      \/ \E r \in Req : SignIn(r) \/ LogoutBump(r)
      \/ \E a \in Email, on \in BOOLEAN : SetActive(a, on)
  BY DEF Next, Arrive, OpenLink, LogoutCheck, Step, LockLink, FindUser,
         InsertUser, Deny, Rollback, Sweep, Environment, RequestLink, Tick,
         Quiet, vars
<1>8. ASSUME NEW r \in Req, SignIn(r) \/ LogoutBump(r)
      PROVE  users'[e] \in {users[e], [users[e] EXCEPT !.tv = @ + 1]}
  BY <1>2, <1>3, <1>8
<1>9. users'[e] = users[e] \/ users'[e] = [users[e] EXCEPT !.tv = @ + 1]
      \/ \E on \in BOOLEAN : users'[e] = [users[e] EXCEPT !.active = on]
  BY <1>4, <1>7, <1>8
<1>10. CASE users'[e] = users[e]
  BY <1>0, <1>10
<1>11. CASE users'[e] = [users[e] EXCEPT !.tv = @ + 1]
  <2>1. users'[e] \in User /\ users'[e].by = users[e].by
        /\ users'[e].tv = users[e].tv + 1
    BY <1>6, <1>11
  <2> QED BY <1>0, <2>1, NoUserAssumption
<1>12. ASSUME NEW on \in BOOLEAN, users'[e] = [users[e] EXCEPT !.active = on]
       PROVE  /\ users'[e] \in User
              /\ users'[e].by = users[e].by
              /\ users'[e].tv = users[e].tv
  BY <1>5, <1>12
<1>13. CASE \E on \in BOOLEAN : users'[e] = [users[e] EXCEPT !.active = on]
  BY <1>0, <1>12, <1>13, NoUserAssumption
<1> QED BY <1>9, <1>10, <1>11, <1>13

\* The unique index on lower(email) and the SAVEPOINT: racing first sign-ins
\* never replace the account one of them stored.
THEOREM AccountIsUnique == Spec => OneAccount
<1>1. Inv /\ [Next]_vars =>
        [\A e \in Email : users[e] # NoUser =>
            users'[e] # NoUser /\ users'[e].by = users[e].by]_vars
  BY AccountsKept
<1> QED BY <1>1, Invariance, PTL DEF Spec, OneAccount

\* token_version only grows, so a session it revoked is never accepted again.
THEOREM RevocationIsFinal == Spec => RevokedStaysRevoked
<1>1. ASSUME Inv, [Next]_vars, NEW s \in Req, SignedIn(s),
             users[tx[s].email].tv # tx[s].tv
      PROVE  users'[tx[s].email].tv # tx[s].tv
  <2> DEFINE e == tx[s].email
  <2>1. /\ e \in Email /\ users[e] # NoUser /\ tx[s].tv <= users[e].tv
    BY <1>1 DEF Inv, Fits, KnowsAccount, SignedIn
  <2>2. users'[e].tv >= users[e].tv /\ users'[e] # NoUser
    BY <1>1, <2>1, AccountsKept
  <2>3. users[e].tv \in Nat /\ users'[e].tv \in Nat /\ tx[s].tv \in Nat
    <3>1. users' \in [Email -> User \cup {NoUser}]
      BY <1>1, NextInv DEF Inv, TypeOK
    <3> QED BY <1>1, <2>1, <2>2, <3>1, StoredUser, RequestState DEF Inv, User
  <2> HIDE DEF e
  <2>4. users'[e].tv # tx[s].tv
    BY <1>1, <2>1, <2>2, <2>3 DEF e
  <2> QED BY <2>4 DEF e
<1>2. Inv /\ [Next]_vars =>
        [\A s \in Req :
            SignedIn(s) /\ users[tx[s].email].tv # tx[s].tv
            => users'[tx[s].email].tv # tx[s].tv]_vars
  BY <1>1
<1> QED BY <1>2, Invariance, PTL DEF Spec, RevokedStaysRevoked

\* A request's step moves no other request.
LEMMA OneRequestMoves ==
  ASSUME Inv, NEW a \in Req, Arrive(a) \/ Step(a) \/ Rollback(a)
  PROVE  \A b \in Req \ {a} : tx'[b] = tx[b]
<1>1. CASE Arrive(a)
  BY <1>1 DEF Arrive, OpenLink, LogoutCheck, Inv, TypeOK
<1>2. CASE LockLink(a) \/ Rollback(a)
  BY <1>2 DEF LockLink, Locked, Rollback, Finish, Inv, TypeOK
<1>3. CASE FindUser(a)
  BY <1>3 DEF FindUser, Goto, Inv, TypeOK
<1>4. CASE InsertUser(a)
  BY <1>4 DEF InsertUser, Goto, Inv, TypeOK
<1>5. CASE SignIn(a) \/ Deny(a) \/ LogoutBump(a)
  BY <1>5 DEF SignIn, Deny, LogoutBump, Finish, Inv, TypeOK
<1> QED BY <1>1, <1>2, <1>3, <1>4, <1>5 DEF Step

\* The atomic increment: the commit of a logout everywhere leaves no session of
\* the account valid, whatever sign-ins and logouts it overlapped.
THEOREM LogoutIsComplete == Spec => LogoutCoversAll
<1>1. ASSUME Inv, [Next]_vars, NEW r \in Req, NEW s \in Req,
             tx[r].pc = "bumping", tx'[r].out = "loggedout",
             SignedIn(s), tx[s].email = tx[r].email
      PROVE  tx[s].tv # users'[tx[s].email].tv
  <2> DEFINE e == tx[r].email
  <2>1. /\ e \in Email /\ users[e] # NoUser /\ tx[s].tv <= users[e].tv
    BY <1>1 DEF Inv, Fits, KnowsAccount, SignedIn
  <2>2. users[e].tv \in Nat /\ tx[s].tv \in Nat
    BY <1>1, <2>1, StoredUser, RequestState DEF Inv
  <2>3. LogoutBump(r)
    <3>1. tx[r].out = "none" /\ tx[r] \in Tx
      BY <1>1 DEF Inv, Fits, Undecided, TypeOK
    <3>2. tx' # tx
      BY <1>1, <3>1
    <3>3. PICK a \in Req : Arrive(a) \/ Step(a) \/ Rollback(a)
      BY <1>1, <3>2 DEF Next, Sweep, Environment, RequestLink, SetActive, Tick,
                        Quiet, vars
    <3>4. \A b \in Req \ {a} : tx'[b] = tx[b]
      BY <1>1, <3>3, OneRequestMoves
    <3>5. a = r
      BY <1>1, <3>1, <3>4
    <3>6. ~Rollback(r)
      BY <1>1 DEF Rollback, Finish, Inv, TypeOK, Tx
    <3> QED BY <1>1, <3>3, <3>5, <3>6
            DEF Arrive, Step, OpenLink, LogoutCheck, LockLink, FindUser,
                InsertUser, SignIn, Deny
  <2>4. users'[e].tv = users[e].tv + 1
    BY <1>1, <2>1, <2>3, StoredUser DEF LogoutBump, Inv, TypeOK, User
  <2> HIDE DEF e
  <2>5. tx[s].tv # users'[e].tv
    BY <2>1, <2>2, <2>4
  <2> QED BY <1>1, <2>5 DEF e
<1>2. Inv /\ [Next]_vars =>
        [\A r, s \in Req :
            (/\ tx[r].pc = "bumping" /\ tx'[r].out = "loggedout"
             /\ SignedIn(s) /\ tx[s].email = tx[r].email)
            => tx[s].tv # users'[tx[s].email].tv]_vars
  BY <1>1
<1> QED BY <1>2, Invariance, PTL DEF Spec, LogoutCoversAll

\* request_login and the sweep delete dead links only, and of those none that a
\* verification has under its lock, which it rewrites and never deletes.
THEOREM LiveLinksStay == Spec => LiveLinksKept
<1>1. ASSUME Inv, [Next]_vars, NEW t \in Token, links[t] # NoLink,
             Dead(t) => LinkLocked(t)
      PROVE  links'[t] # NoLink
  <2>1. CASE links' = links
    BY <1>1, <2>1
  <2>2. CASE Sweep
    BY <1>1, <2>2 DEF Sweep
  <2>3. ASSUME NEW u \in Token, NEW e \in Email, RequestLink(u, e)
        PROVE  links'[t] # NoLink
    <3>1. u # t
      BY <1>1, <2>3 DEF RequestLink, Inv, StoredAsIssued
    <3>2. t \notin DeadLinksOf(e)
      BY <1>1, <2>3 DEF RequestLink, DeadLinksOf
    <3>3. links' = [d \in Token |->
                      IF d = u THEN [email |-> e, expires |-> now + TTL,
                                     consumed |-> FALSE]
                      ELSE IF d \in DeadLinksOf(e) THEN NoLink ELSE links[d]]
      BY <2>3 DEF RequestLink
    <3>4. links'[t] = links[t]
      BY <3>1, <3>2, <3>3
    <3> QED BY <1>1, <3>4
  <2>4. ASSUME NEW r \in Req, SignIn(r) \/ Deny(r)
        PROVE  links'[t] # NoLink
    <3>1. links' = [links EXCEPT ![tx[r].token].consumed = TRUE]
      BY <2>4 DEF SignIn, Deny
    <3>2. links'[t] \in {links[t], [links[t] EXCEPT !.consumed = TRUE]}
      BY <1>1, <3>1 DEF Inv, TypeOK
    <3>3. [links[t] EXCEPT !.consumed = TRUE] \in Link
      BY <1>1, StoredLink DEF Inv, Link
    <3> QED BY <1>1, <3>2, <3>3, NoLinkAssumption
  <2> QED BY <1>1, <2>1, <2>2, <2>3, <2>4
          DEF Next, Arrive, OpenLink, LogoutCheck, Step, LockLink, FindUser,
              InsertUser, LogoutBump, Rollback, Environment, SetActive, Tick,
              Quiet, vars
<1>2. Inv /\ [Next]_vars =>
        [\A t \in Token :
            links[t] # NoLink /\ (Dead(t) => LinkLocked(t)) => links'[t] # NoLink]_vars
  BY <1>1
<1> QED BY <1>2, Invariance, PTL DEF Spec, LiveLinksKept

-----------------------------------------------------------------------------
(* SingleUse is implemented *)

Spent(t) == \E r \in Req : SignedIn(r) /\ tx[r].token = t

\* The four states of a link exclude each other.
StatesApart ==
    \A t \in Token :
        /\ issued[t] = NoLink => LinkState(t) = "unissued"
        /\ Usable(t) => LinkState(t) = "live" /\ issued[t] # NoLink /\ ~Spent(t)
        /\ Spent(t) => LinkState(t) = "spent" /\ issued[t] # NoLink
        /\ issued[t] # NoLink /\ ~Usable(t) /\ ~Spent(t) => LinkState(t) = "void"

\* They do so in every reachable state.
LEMMA LinkStates == Inv => StatesApart
<1> SUFFICES ASSUME Inv, NEW t \in Token
             PROVE  /\ issued[t] = NoLink => LinkState(t) = "unissued"
                    /\ Usable(t) => /\ LinkState(t) = "live"
                                    /\ issued[t] # NoLink /\ ~Spent(t)
                    /\ Spent(t) => LinkState(t) = "spent" /\ issued[t] # NoLink
                    /\ issued[t] # NoLink /\ ~Usable(t) /\ ~Spent(t)
                         => LinkState(t) = "void"
  BY DEF StatesApart
<1>1. Usable(t) => issued[t] # NoLink /\ ~Spent(t)
  BY DEF Inv, StoredAsIssued, Usable, Spent, Fits, SpentLink, SignedIn
<1>2. Spent(t) => issued[t] # NoLink
  BY DEF Inv, Spent, Fits, SpentLink, SignedIn
<1>3. LinkState(t) = CASE issued[t] = NoLink -> "unissued"
                       [] Usable(t) -> "live"
                       [] Spent(t) -> "spent"
                       [] OTHER -> "void"
  BY DEF LinkState, Spent
<1> QED BY <1>1, <1>2, <1>3

\* A step that issues no link and signs nobody in, and makes no link usable,
\* voids the links that are no longer usable.
LEMMA FadingStep ==
  ASSUME Inv, Inv', issued' = issued,
         \A r \in Req : SignedIn(r)' <=> SignedIn(r),
         \A r \in Req : SignedIn(r) => tx'[r].token = tx[r].token,
         \A t \in Token : Usable(t)' => Usable(t)
  PROVE  Promise!Next
<1> DEFINE dead == {t \in Token : Usable(t) /\ ~Usable(t)'}
<1>1. StatesApart /\ StatesApart'
  BY LinkStates, PTL
<1>2. \A t \in Token : Spent(t)' <=> Spent(t)
  BY DEF Spent
<1>3. \A t \in dead : LinkState(t) = "live"
  BY <1>1 DEF StatesApart
<1>4. \A t \in Token : LinkState(t)' = IF t \in dead THEN "void" ELSE LinkState(t)
  BY <1>1, <1>2 DEF StatesApart
<1>5. {<<tx'[r].token, r>> : r \in {s \in Req : SignedIn(s)'}}
        = {<<tx[r].token, r>> : r \in {s \in Req : SignedIn(s)}}
  OBVIOUS
<1>6. Promise!Void(dead)
  BY <1>3, <1>4, <1>5 DEF Promise!Void
<1> QED BY <1>6 DEF Promise!Next

\* Short of signing in, a request takes a link's lock only while the link is
\* redeemable, and consumes none but the one it holds.
LEMMA RequestMoves ==
  ASSUME Inv, NEW r \in Req, Arrive(r) \/ Step(r) \/ Rollback(r), ~SignIn(r)
  PROVE  /\ issued' = issued /\ now' = now
         /\ tx[r].out # "signedin" /\ tx'[r].out # "signedin"
         /\ tx'[r].pc \in Holding =>
               /\ tx'[r].token = tx[r].token
               /\ HoldsLink(r) \/ Redeemable(tx[r].token, tx[r].email)
         /\ links' # links => Deny(r)
<1>1. tx[r] \in Tx /\ tx[r].pc # "done"
  BY DEF Inv, TypeOK, Arrive, OpenLink, LogoutCheck, Step, LockLink, FindUser,
     InsertUser, SignIn, Deny, LogoutBump, Rollback
<1>2. tx[r].out = "none"
  BY <1>1 DEF Inv, Fits, Undecided
<1>3. issued' = issued /\ now' = now /\ (links' # links => Deny(r))
  BY DEF Arrive, OpenLink, LogoutCheck, Step, LockLink, FindUser,
     InsertUser, SignIn, Deny, LogoutBump, Rollback
<1>4. ASSUME NEW o \in Outcome, o # "signedin", Finish(r, o)
      PROVE  tx'[r].pc = "done" /\ tx'[r].out # "signedin"
  BY <1>1, <1>4 DEF Finish, Inv, TypeOK, Tx
<1>5. ASSUME NEW pc \in Phase, Goto(r, pc)
      PROVE  /\ tx'[r].pc = pc /\ tx'[r].out = "none"
             /\ tx'[r].token = tx[r].token
  BY <1>1, <1>2, <1>5 DEF Goto, Inv, TypeOK, Tx
<1>6. CASE Arrive(r)
  <2>1. tx'[r].pc \in {"locking", "bumping"} /\ tx'[r].out = tx[r].out
    <3>1. ASSUME NEW t \in Token, NEW e \in Email, OpenLink(r, t, e)
          PROVE  tx'[r].pc = "locking" /\ tx'[r].out = tx[r].out
      BY <1>1, <3>1 DEF OpenLink, Inv, TypeOK, Tx
    <3>2. ASSUME NEW s \in Req, LogoutCheck(r, s)
          PROVE  tx'[r].pc = "bumping" /\ tx'[r].out = tx[r].out
      BY <1>1, <3>2 DEF LogoutCheck, Inv, TypeOK, Tx
    <3> QED BY <1>6, <3>1, <3>2 DEF Arrive
  <2> QED BY <1>2, <1>3, <2>1 DEF Holding
<1>7. CASE LockLink(r)
  <2>1. CASE Redeemable(tx[r].token, tx[r].email)
    <3>1. tx'[r].token = tx[r].token /\ tx'[r].out = tx[r].out
      BY <1>1, <1>7, <2>1 DEF LockLink, Locked, Inv, TypeOK, Tx
    <3> QED BY <1>2, <1>3, <2>1, <3>1
  <2>2. CASE Finish(r, "rejected")
    BY <1>2, <1>3, <1>4, <2>2 DEF Holding, Outcome
  <2> QED BY <1>7, <2>1, <2>2 DEF LockLink, Locked
<1>8. CASE FindUser(r)
  <2>1. HoldsLink(r)
    BY <1>8 DEF FindUser, HoldsLink, Holding
  <2>2. tx'[r].token = tx[r].token /\ tx'[r].out = "none"
    <3>1. CASE tx' = [tx EXCEPT ![r].pc = "ready", ![r].tv = users[tx[r].email].tv]
      BY <1>1, <1>2, <3>1 DEF Inv, TypeOK, Tx
    <3>2. CASE Goto(r, "signup") \/ Goto(r, "denying")
      BY <1>5, <3>2 DEF Phase
    <3> QED BY <1>8, <3>1, <3>2 DEF FindUser
  <2> QED BY <1>2, <1>3, <2>1, <2>2
<1>9. CASE InsertUser(r)
  <2>1. HoldsLink(r)
    BY <1>9 DEF InsertUser, HoldsLink, Holding
  <2>2. tx'[r].token = tx[r].token /\ tx'[r].out = "none"
    <3>1. CASE tx' = [tx EXCEPT ![r].pc = "inserted", ![r].tv = 0]
      BY <1>1, <1>2, <3>1 DEF Inv, TypeOK, Tx
    <3>2. CASE Goto(r, "reselect")
      BY <1>5, <3>2 DEF Phase
    <3> QED BY <1>9, <3>1, <3>2 DEF InsertUser
  <2> QED BY <1>2, <1>3, <2>1, <2>2
<1>10. CASE Deny(r) \/ LogoutBump(r) \/ Rollback(r)
  BY <1>2, <1>3, <1>4, <1>10 DEF Deny, LogoutBump, Rollback, Holding, Outcome
<1> QED BY <1>6, <1>7, <1>8, <1>9, <1>10 DEF Step

\* A request's step short of signing in fades.
LEMMA RequestFades ==
  ASSUME Inv, Inv', NEW r \in Req, Arrive(r) \/ Step(r) \/ Rollback(r), ~SignIn(r)
  PROVE  Promise!Next
<1>1. \A s \in Req : /\ SignedIn(s)' <=> SignedIn(s)
                     /\ SignedIn(s) => tx'[s].token = tx[s].token
  BY RequestMoves, OneRequestMoves DEF SignedIn
<1>2. ASSUME NEW t \in Token, Usable(t)' PROVE Usable(t)
  <2>1. links[t] # NoLink /\ ~links[t].consumed /\ links'[t] = links[t]
    <3>1. CASE links' = links
      BY <1>2, <3>1 DEF Usable
    <3>2. CASE Deny(r)
      <4>1. links' = [links EXCEPT ![tx[r].token].consumed = TRUE]
            /\ tx[r].token \in Token /\ links[tx[r].token] # NoLink
        BY <3>2 DEF Deny, Inv, Fits, NamesLink, HoldsLiveLink, Holding
      <4>2. links'[tx[r].token] = [links[tx[r].token] EXCEPT !.consumed = TRUE]
            /\ links[tx[r].token] \in Link
        BY <4>1, StoredLink DEF Inv, TypeOK
      <4>3. links'[tx[r].token].consumed
        BY <4>2 DEF Link
      <4>4. t # tx[r].token
        BY <1>2, <4>3 DEF Usable
      <4>5. links'[t] = links[t]
        BY <4>1, <4>4 DEF Inv, TypeOK
      <4> QED BY <1>2, <4>5 DEF Usable
    <3> QED BY <3>1, <3>2, RequestMoves
  <2>2. CASE links[t].expires > now
    BY <2>1, <2>2 DEF Usable
  <2>3. CASE ~(links[t].expires > now)
    <3>1. PICK s \in Req : tx'[s].pc \in Holding /\ tx'[s].token = t
      BY <1>2, <2>1, <2>3, RequestMoves DEF Usable, LinkLocked, HoldsLink
    <3>2. CASE s # r
      BY <2>1, <3>1, <3>2, OneRequestMoves DEF Usable, LinkLocked, HoldsLink
    <3>3. CASE s = r
      <4>1. tx[r].token = t /\ (HoldsLink(r) \/ Redeemable(t, tx[r].email))
        BY <3>1, <3>3, RequestMoves
      <4>2. ~Redeemable(t, tx[r].email)
        <5>1. links[t].expires \in Nat /\ now \in Nat
          BY <2>1, StoredLink, TimeAssumption DEF Inv, TypeOK, Time
        <5> QED BY <2>3, <5>1 DEF Redeemable, Dead
      <4> QED BY <2>1, <4>1, <4>2 DEF Usable, LinkLocked
    <3> QED BY <3>2, <3>3
  <2> QED BY <2>2, <2>3
<1> QED BY <1>1, <1>2, RequestMoves, FadingStep

\* A sign-in redeems its link.
LEMMA SignInRedeems ==
  ASSUME Inv, Inv', NEW r \in Req, SignIn(r)
  PROVE  Promise!Next
<1>0. PICK t \in Token : t = tx[r].token
  BY DEF SignIn, Holding, Inv, Fits, NamesLink
<1>1. /\ HoldsLink(r) /\ links[t] # NoLink /\ ~links[t].consumed
      /\ tx[r] \in Tx /\ tx[r].out # "signedin"
  BY <1>0 DEF SignIn, Holding, HoldsLink, Inv, Fits, NamesLink, HoldsLiveLink,
     Undecided, TypeOK
<1>2. /\ links' = [links EXCEPT ![t].consumed = TRUE]
      /\ now' = now /\ issued' = issued
      /\ tx' = [tx EXCEPT ![r].pc = "done", ![r].out = "signedin"]
  BY <1>0 DEF SignIn, Finish
<1>3. /\ tx'[r].pc = "done" /\ tx'[r].out = "signedin" /\ tx'[r].token = t
      /\ \A s \in Req \ {r} : tx'[s] = tx[s]
  BY <1>0, <1>1, <1>2 DEF Inv, TypeOK, Tx
<1>4. ~Usable(t)'
  <2>1. links[t] \in Link /\ links'[t] = [links[t] EXCEPT !.consumed = TRUE]
    BY <1>1, <1>2, StoredLink DEF Inv, TypeOK
  <2>2. links'[t].consumed
    BY <2>1 DEF Link
  <2> QED BY <2>2 DEF Usable
<1>5. ASSUME NEW u \in Token, u # t
      PROVE  (Usable(u)' <=> Usable(u)) /\ (Spent(u)' <=> Spent(u))
  <2>1. links'[u] = links[u]
    BY <1>2, <1>5 DEF Inv, TypeOK
  <2>2. LinkLocked(u)' <=> LinkLocked(u)
    BY <1>0, <1>3, <1>5 DEF LinkLocked, HoldsLink, Holding
  <2>3. Spent(u)' <=> Spent(u)
    BY <1>0, <1>1, <1>3, <1>5 DEF Spent, SignedIn
  <2> QED BY <1>2, <2>1, <2>2, <2>3 DEF Usable
<1>6. Usable(t) /\ Spent(t)'
  BY <1>0, <1>1, <1>3 DEF Usable, LinkLocked, Spent, SignedIn
<1>7. StatesApart /\ StatesApart'
  BY LinkStates, PTL
<1>8. \A u \in Token : LinkState(u)' = IF u = t THEN "spent" ELSE LinkState(u)
  BY <1>1, <1>2, <1>5, <1>6, <1>7 DEF StatesApart
<1>9. LinkState(t) = "live"
  BY <1>1, <1>6, <1>7 DEF StatesApart
<1>10. {<<tx'[s].token, s>> : s \in {q \in Req : SignedIn(q)'}}
         = {<<tx[s].token, s>> : s \in {q \in Req : SignedIn(q)}} \cup {<<t, r>>}
  <2>1. \A q \in Req : SignedIn(q)' <=> SignedIn(q) \/ q = r
    BY <1>1, <1>3 DEF SignedIn
  <2>2. \A q \in Req : tx'[q].token = tx[q].token
    BY <1>0, <1>3
  <2> QED BY <1>0, <2>1, <2>2
<1>11. Promise!Redeem(t, r)
  BY <1>1, <1>8, <1>9, <1>10 DEF Promise!Redeem
<1> QED BY <1>1, <1>11 DEF Promise!Next

\* A requested link becomes live; the dead ones it deletes were not.
LEMMA RequestLinkIssues ==
  ASSUME Inv, Inv', NEW t \in Token, NEW e \in Email, RequestLink(t, e)
  PROVE  Promise!Next
<1> DEFINE new == [email |-> e, expires |-> now + TTL, consumed |-> FALSE]
<1>1. /\ issued[t] = NoLink /\ now \in Nat /\ now' = now /\ tx' = tx
      /\ issued' = [issued EXCEPT ![t] = new]
      /\ links' = [d \in Token |-> IF d = t THEN new
                       ELSE IF d \in DeadLinksOf(e) THEN NoLink ELSE links[d]]
      /\ \A d \in DeadLinksOf(e) : ~LinkLocked(d)
  BY TimeAssumption DEF RequestLink, Inv, TypeOK, Time
<1>2. /\ new \in Link /\ new.expires > now /\ ~new.consumed
  BY <1>1, TTLAssumption DEF Link
<1>3. new # NoLink
  BY <1>2, NoLinkAssumption
<1> HIDE DEF new
<1>4. links'[t] = new /\ issued'[t] = new
      /\ \A u \in Token \ {t} : issued'[u] = issued[u]
  BY <1>1 DEF Inv, TypeOK
<1>5. Usable(t)'
  BY <1>1, <1>2, <1>3, <1>4 DEF Usable
<1>6. \A u \in Token : (LinkLocked(u)' <=> LinkLocked(u)) /\ (Spent(u)' <=> Spent(u))
  BY <1>1 DEF LinkLocked, HoldsLink, Spent, SignedIn
<1>7. ASSUME NEW u \in Token, u # t PROVE Usable(u)' <=> Usable(u)
  <2>1. CASE u \in DeadLinksOf(e)
    <3>1. ~LinkLocked(u) /\ Dead(u) /\ links'[u] = NoLink
      BY <1>1, <1>7, <2>1 DEF DeadLinksOf
    <3>2. links[u].expires \in Nat
      BY <3>1, StoredLink DEF Dead, Inv
    <3> QED BY <1>1, <3>1, <3>2 DEF Usable, Dead
  <2>2. CASE u \notin DeadLinksOf(e)
    <3>1. links'[u] = links[u]
      BY <1>1, <1>7, <2>2
    <3> QED BY <1>1, <1>6, <3>1 DEF Usable
  <2> QED BY <2>1, <2>2
<1>8. StatesApart /\ StatesApart'
  BY LinkStates, PTL
<1>9. \A u \in Token : LinkState(u)' = IF u = t THEN "live" ELSE LinkState(u)
  BY <1>4, <1>5, <1>6, <1>7, <1>8 DEF StatesApart
<1>10. LinkState(t) = "unissued"
  BY <1>1, <1>8 DEF StatesApart
<1>11. {<<tx'[s].token, s>> : s \in {q \in Req : SignedIn(q)'}}
         = {<<tx[s].token, s>> : s \in {q \in Req : SignedIn(q)}}
  BY <1>1 DEF SignedIn
<1>12. Promise!Issue(t)
  BY <1>9, <1>10, <1>11 DEF Promise!Issue
<1> QED BY <1>12 DEF Promise!Next

\* The sweep, the clock and the administrator make no link usable.
LEMMA EnvironmentFades ==
  ASSUME Inv, Inv',
         \/ Sweep \/ Tick
         \/ \E e \in Email, active \in BOOLEAN : SetActive(e, active)
  PROVE  Promise!Next
<1>1. issued' = issued /\ tx' = tx
  BY DEF Sweep, Tick, SetActive
<1>2. now \in Nat /\ (now' = now \/ now' = now + 1)
  BY TimeAssumption DEF Sweep, Tick, SetActive, Inv, TypeOK, Time
<1>3. \A t \in Token : links'[t] = NoLink \/ links'[t] = links[t]
  BY DEF Sweep, Tick, SetActive
<1>4. ASSUME NEW t \in Token, Usable(t)' PROVE Usable(t)
  <2>1. links[t] # NoLink /\ links'[t] = links[t]
    BY <1>3, <1>4 DEF Usable
  <2>2. links[t].expires \in Nat
    BY <2>1, StoredLink DEF Inv
  <2>3. LinkLocked(t)' <=> LinkLocked(t)
    BY <1>1 DEF LinkLocked, HoldsLink
  <2> QED BY <1>2, <1>4, <2>1, <2>2, <2>3 DEF Usable
<1> QED BY <1>1, <1>4, FadingStep DEF SignedIn

\* A link's state and the grants are as at the start.
LEMMA PromiseInit == Init => Promise!Init
<1> SUFFICES ASSUME Init PROVE Promise!Init
  OBVIOUS
<1>1. \A t \in Token : LinkState(t) = "unissued"
  BY InitInv, LinkStates DEF Init, StatesApart
<1>2. \A r \in Req : ~SignedIn(r)
  BY DEF Init, IdleTx, SignedIn
<1> QED BY <1>1, <1>2 DEF Promise!Init

\* Every step is one of SingleUse, or leaves links and grants as they are.
LEMMA PromiseStep == Inv /\ Inv' /\ [Next]_vars => [Promise!Next]_(Promise!vars)
<1> SUFFICES ASSUME Inv, Inv', [Next]_vars
             PROVE  [Promise!Next]_(Promise!vars)
  OBVIOUS
<1>1. ASSUME NEW r \in Req, Arrive(r) \/ Step(r) \/ Rollback(r)
      PROVE  Promise!Next
  BY <1>1, RequestFades, SignInRedeems
<1>2. CASE Sweep \/ Environment
  BY <1>2, RequestLinkIssues, EnvironmentFades DEF Environment
<1>3. CASE UNCHANGED vars
  <2>1. \A t \in Token : LinkState(t)' = LinkState(t)
    BY <1>3 DEF vars, LinkState, Usable, LinkLocked, HoldsLink, SignedIn
  <2>2. {<<tx'[s].token, s>> : s \in {q \in Req : SignedIn(q)'}}
          = {<<tx[s].token, s>> : s \in {q \in Req : SignedIn(q)}}
    BY <1>3 DEF vars, SignedIn
  <2> QED BY <2>1, <2>2 DEF Promise!vars
<1> QED BY <1>1, <1>2, <1>3 DEF Next, Quiet

\* Every link is issued once, signs in at most one request and only while it is
\* live, and stays spent or void: the sign-in implements SingleUse.
THEOREM SingleUseImplemented == Spec => PromiseKept
BY PromiseInit, PromiseStep, Invariance, PTL DEF Spec, PromiseKept, Promise!Spec

-----------------------------------------------------------------------------
(* Restarts and the sign-ins *)

\* A restart ends the requests under way, and the tables stay as they are.
LEMMA RestartInv ==
  ASSUME Inv, NEW c \in Settings, Restart(c)
  PROVE  Inv'
<1> DEFINE over(r) == tx[r].pc \in {"idle", "done"}
<1>1. ASSUME NEW r \in Req
      PROVE  /\ over(r) => tx'[r] = tx[r]
             /\ ~over(r) => tx'[r] = [tx[r] EXCEPT !.pc = "done", !.out = "failed"]
  BY DEF Restart
<1>2. ASSUME NEW r \in Req
      PROVE  /\ tx'[r] \in Tx
             /\ tx'[r].pc \in {"idle", "done"}
             /\ tx'[r].token = tx[r].token
             /\ tx'[r].out = "signedin" => tx'[r] = tx[r]
             /\ tx'[r].pc # "done" => tx'[r] = tx[r]
  <2>1. tx[r] \in Tx
    BY DEF Inv, TypeOK
  <2>2. CASE over(r)
    BY <1>1, <2>1, <2>2
  <2>3. CASE ~over(r)
    BY <1>1, <2>1, <2>3 DEF Tx, Phase, Outcome
  <2> QED BY <2>2, <2>3
<1>3. UNCHANGED <<now, links, issued, users>>
  BY DEF Restart
<1>4. DOMAIN tx' = Req /\ tx' = [r \in Req |-> tx'[r]]
  BY DEF Restart
<1>5. TypeOK'
  BY <1>2, <1>3, <1>4 DEF Inv, TypeOK
<1>6. StoredAsIssued'
  BY <1>3 DEF Inv, StoredAsIssued
<1>7. ASSUME NEW r \in Req PROVE Fits(tx[r])'
  <2>1. Fits(tx[r])
    BY DEF Inv
  <2> QED BY <1>2, <1>3, <2>1 DEF Fits, NamesLink, HoldsLiveLink, KnowsAccount,
                                  InsertsFirst, SpentLink, Undecided, Holding
<1>8. HoldersApart' /\ InsertersApart'
  BY <1>2 DEF HoldersApart, HoldsLink, Holding, InsertersApart
<1>9. SignsInOnce'
  BY <1>2 DEF Inv, SignsInOnce, SignedIn
<1> QED BY <1>5, <1>6, <1>7, <1>8, <1>9 DEF Inv

\* A step of the sessions is one of MagicLink, or a restart.
LEMMA StepsAreSteps ==
  [SessionsNext]_allVars => [Next]_vars \/ \E c \in Settings : Restart(c)
<1>1. ASSUME NEW r \in Req, Verify(r) PROVE [Next]_vars
  BY <1>1 DEF Verify, Next, Step
<1>2. ASSUME NEW r \in Req, Plain(r) PROVE [Next]_vars
  BY <1>2 DEF Plain, Next, Step, Arrive
<1>3. ASSUME NEW r \in Req, Logout(r) PROVE [Next]_vars
  BY <1>3 DEF Logout, Next, Arrive
<1>4. ASSUME Surroundings PROVE [Next]_vars
  BY <1>4 DEF Surroundings, Next
<1> QED BY <1>1, <1>2, <1>3, <1>4 DEF SessionsNext, allVars, vars

\* What MagicLink proves of sign-ins holds through restarts, too.
THEOREM SignInsStandRestarts == SessionsSpec => []Inv
<1>1. SessionsInit => Inv
  BY InitInv DEF SessionsInit
<1>2. Inv /\ [SessionsNext]_allVars => Inv'
  BY StepsAreSteps, NextInv, RestartInv
<1> QED BY <1>1, <1>2, PTL DEF SessionsSpec

\* Requests that end with the process, and start again after it, still sign in
\* at most once with a link, and only before it expired.
THEOREM LinksStandRestarts == SessionsSpec => [](SignsInOnce /\ LinkHonoured)
<1>1. Inv => SignsInOnce /\ LinkHonoured
  BY DEF Inv, LinkHonoured, Fits, SpentLink, SignedIn
<1> QED BY <1>1, SignInsStandRestarts, PTL

\* A restart signs nobody in, and no link comes back that it was too late for.
LEMMA RestartFades ==
  ASSUME Inv, Inv', NEW c \in Settings, Restart(c)
  PROVE  Promise!Next
<1>1. UNCHANGED <<now, links, issued>>
  BY DEF Restart
<1>2. ASSUME NEW r \in Req
      PROVE  /\ tx'[r].token = tx[r].token
             /\ SignedIn(r)' <=> SignedIn(r)
             /\ tx'[r].pc \in Holding => tx[r].pc \in Holding
  <2>1. tx[r] \in Tx /\ Fits(tx[r])
    BY DEF Inv, TypeOK
  <2>2. CASE tx[r].pc \in {"idle", "done"}
    BY <2>2 DEF Restart, SignedIn
  <2>3. CASE tx[r].pc \notin {"idle", "done"}
    <3>1. tx'[r] = [tx[r] EXCEPT !.pc = "done", !.out = "failed"]
      BY <2>3 DEF Restart
    <3>2. tx'[r].pc = "done" /\ tx'[r].out = "failed" /\ tx'[r].token = tx[r].token
      BY <2>1, <3>1 DEF Tx
    <3> QED BY <2>1, <2>3, <3>2 DEF SignedIn, Holding, Fits, Undecided
  <2> QED BY <2>2, <2>3
<1>3. ASSUME NEW t \in Token, Usable(t)' PROVE Usable(t)
  BY <1>1, <1>2, <1>3 DEF Usable, LinkLocked, HoldsLink
<1> QED BY <1>1, <1>2, <1>3, FadingStep

\* However often the process restarts, and whatever it ends half-way, a link is
\* issued once, redeemed at most once and only while it is live.
THEOREM SingleUseStandsRestarts == SessionsSpec => PromiseKept
<1>1. SessionsInit => Promise!Init
  BY PromiseInit DEF SessionsInit
<1>2. Inv /\ Inv' /\ [SessionsNext]_allVars => [Promise!Next]_(Promise!vars)
  BY StepsAreSteps, PromiseStep, RestartFades
<1> QED BY <1>1, <1>2, SignInsStandRestarts, PTL DEF SessionsSpec, PromiseKept, Promise!Spec

-----------------------------------------------------------------------------
(* The types *)

\* The clock is a number that only grows.
LEMMA ClockGrows ==
  ASSUME TypeOK, [Next]_vars \/ \E c \in Settings : Restart(c)
  PROVE  now \in Nat /\ now' \in Nat /\ now <= now'
<1>1. now \in Nat
  BY TimeAssumption DEF TypeOK, Time
<1>2. now' = now \/ now' = now + 1
  BY DEF Next, vars, Arrive, Step, Rollback, Environment, Quiet, Sweep, Tick,
         OpenLink, LockLink, FindUser, InsertUser, SignIn, Deny, LogoutBump,
         LogoutCheck, RequestLink, SetActive, Restart
<1> QED BY <1>1, <1>2

\* Every variable keeps its type.
THEOREM SessionsTypeCorrect == SessionsSpec => []SessionsTypeOK
<1>1. SessionsInit => SessionsTypeOK
  BY InitInv, TimeAssumption, SettingsAssumption, SessionAssumption
  DEF SessionsInit, SessionsTypeOK, Inv, NoSession, Session, Time
<1>2. SessionsTypeOK /\ Inv /\ Inv' /\ [SessionsNext]_allVars => SessionsTypeOK'
  <2> SUFFICES ASSUME SessionsTypeOK, Inv, Inv', [SessionsNext]_allVars
               PROVE  SessionsTypeOK'
    OBVIOUS
  <2>1. TypeOK' /\ now \in Time /\ Time \subseteq Nat
    BY TimeAssumption DEF Inv, TypeOK, Time
  <2>2. ASSUME NEW r \in Req, Verify(r) PROVE SessionsTypeOK'
    <3>1. [key |-> config.secret, exp |-> now + SessionDays] \in Session
      BY <2>1, SessionAssumption DEF SessionsTypeOK, Config, Session
    <3> QED BY <2>1, <2>2, <3>1 DEF Verify, Issue, SessionsTypeOK
  <2>3. ASSUME NEW c \in Settings, Restart(c) PROVE SessionsTypeOK'
    <3>1. config' \in Config /\ session' = session
      BY <2>3, SettingsAssumption DEF Restart
    <3>2. restarts' \in 0..MaxRestarts
      <4>1. restarts < MaxRestarts /\ restarts' = restarts + 1
        BY <2>3, Zenon DEF Restart
      <4> QED BY <4>1, SessionAssumption DEF SessionsTypeOK
    <3>3. rotated' \in Time
      <4>1. rotated' \in {0, rotated, now}
        BY <2>3, Zenon DEF Restart
      <4> QED BY <2>1, <4>1, TimeAssumption DEF SessionsTypeOK, Time
    <3>4. orderly' \in BOOLEAN
      BY <2>3, Zenon DEF Restart
    <3> QED BY <2>1, <3>1, <3>2, <3>3, <3>4 DEF SessionsTypeOK
  <2>4. CASE UNCHANGED sessionVars
    BY <2>1, <2>4 DEF SessionsTypeOK, sessionVars
  <2> QED BY <2>2, <2>3, <2>4 DEF SessionsNext, Plain, Logout, Surroundings, allVars
<1> QED BY <1>1, <1>2, SignInsStandRestarts, PTL DEF SessionsSpec

-----------------------------------------------------------------------------
(* Rotating the secret *)

\* What makes RotationKeepsSessions inductive: no session outlives its
\* SESSION_DAYS, and one that the current secret did not sign was issued before
\* the rotation in progress began, under the secret that it keeps.
Rotating ==
    /\ config.production => config.secret # DevSecret /\ config.previous # DevSecret
    /\ \A r \in Req : session[r].exp <= now + SessionDays
    /\ orderly =>
         \A r \in Req : session[r].exp > now =>
            \/ session[r].key = config.secret
            \/ /\ session[r].key = config.previous
               /\ config.previous # NoSecret
               /\ session[r].exp <= rotated + SessionDays

\* A process that boots has no session yet.
LEMMA RotatingInit == SessionsInit => Rotating
BY SessionAssumption DEF SessionsInit, Rotating, Init, Boots, NoSession

\* Time passes, and a request that signs in gets a session of the current secret.
LEMMA RotatingStep ==
  ASSUME SessionsTypeOK, Rotating, now' \in Nat, now <= now', now \in Nat,
         UNCHANGED <<config, rotated, orderly>>,
         session' = session \/ \E r \in Req : now' = now /\ Issue(r)
  PROVE  Rotating'
<1>1. ASSUME NEW r \in Req
      PROVE  /\ session[r] \in Session
             /\ \/ session'[r] = session[r]
                \/ now' = now /\ session'[r] = [key |-> config.secret,
                                                 exp |-> now + SessionDays]
  BY DEF Issue, SessionsTypeOK
<1>2. ASSUME NEW r \in Req
      PROVE  /\ session'[r].exp <= now' + SessionDays
             /\ \/ session'[r] = session[r]
                \/ session'[r].key = config.secret
             /\ session[r].exp \in Nat
  BY <1>1, SessionAssumption DEF Rotating, Session
<1>3. ASSUME NEW r \in Req, orderly, session'[r].exp > now'
      PROVE  \/ session'[r].key = config.secret
             \/ /\ session'[r].key = config.previous
                /\ config.previous # NoSecret
                /\ session'[r].exp <= rotated + SessionDays
  <2>1. CASE session'[r] = session[r]
    BY <1>2, <1>3, <2>1 DEF Rotating
  <2> QED BY <1>2, <2>1
<1> QED BY <1>2, <1>3 DEF Rotating

\* A restart keeps the secret under which sessions that have not expired were
\* signed, if the operator rotates and drops it as config.py says.
LEMMA RotatingRestart ==
  ASSUME SessionsTypeOK, Rotating, now \in Nat, NEW c \in Settings, Restart(c)
  PROVE  Rotating'
<1>1. /\ Boots(c)
      /\ config' = c
      /\ session' = session
      /\ now' = now
      /\ rotated' = IF c.previous = NoSecret THEN 0
                    ELSE IF SameSecrets(c) THEN rotated ELSE now
  BY Zenon DEF Restart
<1>2. orderly' => orderly /\ (SameSecrets(c) \/ Rotates(c) \/ Drops(c))
  BY Zenon DEF Restart
<1>3. \A r \in Req : session[r] \in Session /\ session[r].exp \in Nat
  BY DEF SessionsTypeOK, Session
<1>4. rotated \in Nat /\ SessionDays \in Nat /\ config.secret # NoSecret
  BY SecretAssumption, SessionAssumption DEF SessionsTypeOK, Config, Time
<1>5. ASSUME NEW r \in Req, orderly', session[r].exp > now
      PROVE  \/ session[r].key = c.secret
             \/ /\ session[r].key = c.previous
                /\ c.previous # NoSecret
                /\ session[r].exp <= rotated' + SessionDays
  <2>1. \/ session[r].key = config.secret
        \/ /\ session[r].key = config.previous
           /\ config.previous # NoSecret
           /\ session[r].exp <= rotated + SessionDays
    BY <1>2, <1>5 DEF Rotating
  <2>2. CASE SameSecrets(c)
    BY <1>1, <2>1, <2>2 DEF SameSecrets
  <2>3. CASE Rotates(c)
    <3>1. session[r].key = c.previous /\ c.previous # NoSecret
      BY <1>4, <2>1, <2>3 DEF Rotates
    <3>2. rotated' = now
      BY <1>1, <2>3, <3>1 DEF Rotates, SameSecrets
    <3>3. session[r].exp <= now + SessionDays
      BY DEF Rotating
    <3> QED BY <3>1, <3>2, <3>3
  <2>4. CASE Drops(c)
    BY <1>3, <1>4, <1>5, <2>1, <2>4 DEF Drops
  <2> QED BY <1>2, <1>5, <2>2, <2>3, <2>4
<1>6. c.production => c.secret # DevSecret /\ c.previous # DevSecret
  BY <1>1 DEF Boots
<1>7. \A r \in Req : session[r].exp <= now + SessionDays
  BY DEF Rotating
<1> QED BY <1>1, <1>5, <1>6, <1>7 DEF Rotating

\* Every step keeps it.
LEMMA RotatingNext ==
  ASSUME Inv, SessionsTypeOK, Rotating, [SessionsNext]_allVars
  PROVE  Rotating'
<1>1. now \in Nat /\ now' \in Nat /\ now <= now'
  BY StepsAreSteps, ClockGrows DEF SessionsTypeOK
<1>2. ASSUME NEW r \in Req, Verify(r) PROVE Rotating'
  <2>1. now' = now
    BY <1>2 DEF Verify, SignIn
  <2> QED BY <1>1, <1>2, <2>1, RotatingStep DEF Verify
<1>3. CASE UNCHANGED sessionVars
  BY <1>1, <1>3, RotatingStep DEF sessionVars
<1>4. ASSUME NEW c \in Settings, Restart(c) PROVE Rotating'
  BY <1>1, <1>4, RotatingRestart
<1> QED BY <1>2, <1>3, <1>4
        DEF SessionsNext, Plain, Logout, Surroundings, allVars

\* The same in every reachable state.
THEOREM RotatingAlways == SessionsSpec => []Rotating
BY RotatingInit, RotatingNext, SignInsStandRestarts, SessionsTypeCorrect, PTL
DEF SessionsSpec

\* "A secret swap doesn't invalidate everyone's session" (config.py): for any
\* sequence of restarts that rotates as the comment says.
THEOREM RotationIsSeamless == SessionsSpec => []RotationKeepsSessions
<1>1. SessionsTypeOK /\ Rotating => RotationKeepsSessions
  <2> SUFFICES ASSUME SessionsTypeOK, Rotating, orderly,
                      NEW r \in Req, session[r].exp > now
               PROVE  Decodes(r)
    BY DEF RotationKeepsSessions
  <2>1. config.secret # NoSecret
    BY SecretAssumption DEF SessionsTypeOK, Config
  <2> QED BY <2>1 DEF Rotating, Decodes
<1> QED BY <1>1, SessionsTypeCorrect, RotatingAlways, PTL

\* _production_guardrails keep sessions of the development secret out of
\* production, even those that were issued before it.
THEOREM ProductionIsApart == SessionsSpec => []NoDevSessions
<1>1. Rotating => NoDevSessions
  BY DEF Rotating, NoDevSessions, Decodes
<1> QED BY <1>1, RotatingAlways, PTL
=============================================================================
