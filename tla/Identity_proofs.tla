--------------------------- MODULE Identity_proofs ---------------------------
(***************************************************************************)
(* What the requests keep of each other's rows and links, for any number   *)
(* of users and requests, of any kinds, and any tables to start with.      *)
(***************************************************************************)
EXTENDS Identity, TLAPS

\* The parameters a handler relies on.
AskInv(a) ==
  /\ a.kind \in AllKinds
  /\ a.kind \in {"code", "signup", "password", "reset", "check"} => a.name \in Phones \cup Emails
  /\ a.kind = "phone" => a.name \in Phones
  /\ a.kind = "apple" => a.name \in Emails \cup {Blank} /\ a.apple \in Apples
  /\ a.kind \in {"wechat", "bind", "try"} => a.wechat \in Unions
  /\ a.wechat \in Unions \cup {None}

BindStates == {"bind", "bindcheck", "bindsave"}

\* The states each kind of request can be in.
Path == [k \in AllKinds |->
  CASE k = "code"     -> {"find", "count", "insert", "done"} \cup BindStates
    [] k = "signup"   -> {"count", "insert", "done"} \cup BindStates
    [] k = "password" -> {"signin", "done"} \cup BindStates
    [] k = "wechat"   -> {"wechat", "insert", "done"}
    [] k = "apple"    -> {"apple", "applesave", "insert", "done"} \cup BindStates
    [] k = "bind"     -> {"done"} \cup BindStates
    [] k = "reset"    -> {"find", "setpassword", "done"}
    [] k = "newpassword" -> {"setpassword", "done"}
    [] k = "phone"    -> {"self", "taken", "setphone", "done"}
    [] OTHER          -> {k, "done"}]

\* The states in which a request has a user, and those in which it has loaded the row.
HasUser == BindStates \cup {"applesave", "setpassword", "self", "taken", "setphone",
                            "destroy", "profile"}
HasRow  == {"applesave", "bindcheck", "bindsave"}

RowInv ==
  /\ DOMAIN users \subseteq Users
  /\ \A u \in DOMAIN users : DOMAIN users[u] = Cols
  /\ BlankIsApples(users)

DomainInv ==
  /\ DOMAIN pc = Requests /\ DOMAIN ask = Requests /\ DOMAIN user = Requests
  /\ DOMAIN inst = Requests /\ DOMAIN answer = Requests
  /\ DOMAIN dead = Requests /\ DOMAIN since = Requests

\* What a request knows of its user: above all, one that was destroyed when it began is not
\* the user of a sign-in past the check of the status.
HandlerInv(r) ==
  /\ dead[r] \subseteq Destroyed
  /\ pc[r] # "idle" => AskInv(ask[r]) /\ pc[r] \in Path[ask[r].kind]
  /\ pc[r] \in HasUser => user[r] \in DOMAIN users
  /\ pc[r] \in HasRow => inst[r] = Loaded(inst[r].now) /\ DOMAIN inst[r].now = Cols
  /\ pc[r] \in BindStates => ask[r].wechat \in Unions
  /\ pc[r] \in BindStates /\ ask[r].kind \in SignIns => user[r] \notin dead[r]
  /\ pc[r] = "applesave" =>
       /\ user[r] \in dead[r] => inst[r].now.status = "deleted"
       /\ inst[r].now.apple_uid = ask[r].apple \/ users[user[r]].email = ask[r].name
  /\ pc[r] \in {"bindcheck", "bindsave"} =>
       users[user[r]].union_id = Null \/ "union_id" \in since[r]
  /\ pc[r] = "done" /\ ask[r].kind \in SignIns \cup {"check"} => answer[r] \notin dead[r]

OverwriteInv ==
  \A o \in overwrites :
    /\ o.col \in Sets[o.kind]
    /\ o.col = "union_id" /\ o.old # Null => o.raced
    /\ o.col = "apple_uid" /\ o.old # Null => o.kind = "apple" /\ (o.mail \/ o.raced)

Inv == RowInv /\ DomainInv /\ OverwriteInv /\ \A r \in Requests : HandlerInv(r)

-----------------------------------------------------------------------------
(* Facts about the parameters and the operators of Record.                 *)

LEMMA Ids ==
  /\ None \notin Users /\ Blank # None
  /\ \A x \in Phones \cup Emails \cup Unions \cup Apples : x # Null /\ x # Blank /\ x # None
BY IdentityConstants DEF IdentityConstants

LEMMA AskedRight ==
  ASSUME NEW k \in Kinds, NEW a \in Asked(k)
  PROVE  a.kind = k /\ AskInv(a) /\ a.from \in DOMAIN users \cup {None}
         /\ (k \in {"bind", "phone", "newpassword", "destroy", "profile"} => a.from \in DOMAIN users)
<1>1. k \in AllKinds
  BY IdentityConstants DEF IdentityConstants
<1>2. CASE k \in {"code", "signup", "password"}
  BY <1>2 DEF Asked, Shape, AskInv, AllKinds, SignIns
<1>3. CASE k \in {"wechat", "try"}
  BY <1>3 DEF Asked, Shape, AskInv, AllKinds, SignIns, LookOnly
<1>4. CASE k = "apple"
  BY <1>4 DEF Asked, Shape, AskInv, AllKinds, SignIns
<1>5. CASE k = "bind"
  BY <1>5 DEF Asked, Shape, AskInv, AllKinds
<1>6. CASE k \in {"reset", "check"}
  BY <1>6 DEF Asked, Shape, AskInv, AllKinds, LookOnly
<1>7. CASE k = "phone"
  BY <1>7 DEF Asked, Shape, AskInv, AllKinds
<1>8. CASE k \in {"newpassword", "destroy", "profile"}
  BY <1>8 DEF Asked, Shape, AskInv, AllKinds
<1> QED BY <1>1, <1>2, <1>3, <1>4, <1>5, <1>6, <1>7, <1>8 DEF AllKinds, SignIns, LookOnly

LEMMA FirstIsOnPath ==
  \A k \in AllKinds : /\ FirstState[k] \in Path[k] \ {"done", "idle", "applesave"}
                      /\ FirstState[k] \notin {"bindcheck", "bindsave"}
                      /\ FirstState[k] \in HasUser =>
                           k \in {"bind", "phone", "newpassword", "destroy", "profile"}
BY DEF FirstState, Path, AllKinds, SignIns, LookOnly, BindStates, HasUser

\* Where a state tells the kind.
LEMMA KindOf ==
  ASSUME NEW k \in AllKinds, NEW p \in Path[k]
  PROVE  /\ p # "idle"
         /\ p = "find" => k \in {"code", "reset"}
         /\ p = "count" => k \in {"code", "signup"}
         /\ p = "insert" => k \in {"code", "signup", "wechat", "apple"}
         /\ p \in {"apple", "applesave"} => k = "apple"
         /\ p \in {"self", "taken", "setphone"} => k = "phone"
         /\ p = "setpassword" => k \in {"reset", "newpassword"}
         /\ p = "signin" => k = "password"
         /\ p \in {"wechat", "check", "try", "destroy", "profile"} => k = p
         /\ p \in BindStates => k \in {"code", "signup", "password", "apple", "bind"}
         /\ "done" \in Path[k]
         /\ k \in SignIns \ {"wechat"} => BindStates \subseteq Path[k]
<1>1. CASE k \in {"code", "signup"}
  BY <1>1 DEF Path, AllKinds, SignIns, LookOnly, BindStates
<1>2. CASE k = "password"
  BY <1>2 DEF Path, AllKinds, SignIns, LookOnly, BindStates
<1>3. CASE k \in {"apple", "bind"}
  BY <1>3 DEF Path, AllKinds, SignIns, LookOnly, BindStates
<1>4. CASE k \in {"reset", "newpassword"}
  BY <1>4 DEF Path, AllKinds, SignIns, LookOnly, BindStates
<1>5. CASE k \in {"phone", "destroy", "profile"}
  BY <1>5 DEF Path, AllKinds, SignIns, LookOnly, BindStates
<1>6. CASE k \in {"check", "try"}
  BY <1>6 DEF Path, AllKinds, SignIns, LookOnly, BindStates
<1>7. CASE k = "wechat"
  BY <1>7 DEF Path, AllKinds, SignIns, LookOnly, BindStates
<1> QED BY <1>1, <1>2, <1>3, <1>4, <1>5, <1>6, <1>7 DEF AllKinds, SignIns, LookOnly

LEMMA InitInv == Init => Inv
<1> SUFFICES ASSUME Init PROVE Inv
  OBVIOUS
<1>1. IsTable(users) /\ BlankIsApples(users)
  BY IdentityConstants DEF IdentityConstants, Init
<1>2. RowInv
  BY <1>1 DEF IsTable, Row, RowInv, Cols
<1> QED BY <1>2 DEF Init, Inv, DomainInv, OverwriteInv, HandlerInv, HasUser, HasRow, BindStates

-----------------------------------------------------------------------------
(* A step of one request, seen by the others.                              *)

\* What it may do to the table and the histories.
TableStep(r) ==
  /\ RowInv' /\ OverwriteInv' /\ dead' = dead /\ DOMAIN since' = Requests
  /\ DOMAIN users \subseteq DOMAIN users' /\ Destroyed \subseteq Destroyed'
  /\ \A u \in DOMAIN users : users'[u].email = users[u].email
  /\ \A s \in Requests \ {r} :
       /\ since[s] \subseteq since'[s]
       /\ pc[s] # "done" /\ user[s] \in DOMAIN users =>
            users'[user[s]].union_id = users[user[s]].union_id \/ "union_id" \in since'[s]

\* The states of the others are their own.
RequestStep(r) ==
  /\ DOMAIN pc' = Requests /\ DOMAIN ask' = Requests /\ DOMAIN user' = Requests
  /\ DOMAIN inst' = Requests /\ DOMAIN answer' = Requests
  /\ \A s \in Requests \ {r} :
       /\ pc'[s] = pc[s] /\ ask'[s] = ask[s] /\ user'[s] = user[s]
       /\ inst'[s] = inst[s] /\ answer'[s] = answer[s]

LEMMA OthersKeep ==
  ASSUME Inv, NEW r \in Requests, NEW s \in Requests \ {r}, TableStep(r), RequestStep(r)
  PROVE  HandlerInv(s)'
<1>1. /\ pc'[s] = pc[s] /\ ask'[s] = ask[s] /\ user'[s] = user[s]
      /\ inst'[s] = inst[s] /\ answer'[s] = answer[s] /\ dead'[s] = dead[s]
  BY DEF RequestStep, TableStep
<1>2. HandlerInv(s)
  BY DEF Inv
<1>3. dead'[s] \subseteq Destroyed' /\ DOMAIN users \subseteq DOMAIN users'
  BY <1>1, <1>2 DEF TableStep, HandlerInv
<1>4. pc[s] = "applesave" => users'[user[s]].email = users[user[s]].email
  BY <1>2 DEF TableStep, HandlerInv, HasUser
<1>5. pc[s] \in {"bindcheck", "bindsave"} =>
        users'[user[s]].union_id = Null \/ "union_id" \in since'[s]
  BY <1>2 DEF TableStep, HandlerInv, HasUser, BindStates
<1> QED BY <1>1, <1>2, <1>3, <1>4, <1>5 DEF HandlerInv

LEMMA StepKeeps ==
  ASSUME Inv, NEW r \in Requests, TableStep(r), RequestStep(r), HandlerInv(r)' PROVE Inv'
BY OthersKeep DEF Inv, TableStep, RequestStep, DomainInv

LEMMA ReadStep == ASSUME Inv, NEW r \in Requests, Reads(r) PROVE TableStep(r) /\ users' = users
<1>1. /\ users' = users /\ dead' = dead /\ overwrites' = overwrites
      /\ since' = [since EXCEPT ![r] = {}]
  BY DEF Reads
<1>2. RowInv' /\ OverwriteInv' /\ Destroyed' = Destroyed
  BY <1>1 DEF Inv, RowInv, OverwriteInv, Destroyed
<1> QED BY <1>1, <1>2 DEF TableStep, Inv, DomainInv

LEMMA SameTable ==
  ASSUME Inv, NEW r \in Requests, UNCHANGED <<users, dead, since, overwrites>> PROVE TableStep(r)
<1>1. RowInv' /\ OverwriteInv' /\ Destroyed' = Destroyed
  BY DEF Inv, RowInv, OverwriteInv, Destroyed
<1> QED BY <1>1 DEF TableStep, Inv, DomainInv

LEMMA NobodyDead == Inv => \A r \in Requests : None \notin dead[r] /\ dead[r] \subseteq DOMAIN users
BY Ids DEF Inv, HandlerInv, RowInv, Destroyed

-----------------------------------------------------------------------------
(* The ways a handler goes on.                                             *)

LEMMA ReplyKeeps ==
  ASSUME Inv, NEW r \in Requests, NEW u, Reply(r, u), TableStep(r), pc[r] # "idle",
         ask[r].kind \in SignIns \cup {"check"} => u \notin dead[r]
  PROVE  Inv'
<1>1. /\ pc' = [pc EXCEPT ![r] = "done"] /\ answer' = [answer EXCEPT ![r] = u]
      /\ inst' = [inst EXCEPT ![r] = None] /\ ask' = ask /\ user' = user
  BY DEF Reply
<1>2. RequestStep(r)
  BY <1>1 DEF RequestStep, Inv, DomainInv
<1>3. pc'[r] = "done" /\ ask'[r] = ask[r] /\ answer'[r] = u /\ dead'[r] = dead[r]
  BY <1>1 DEF Inv, DomainInv, TableStep
<1>4. AskInv(ask[r]) /\ ask[r].kind \in AllKinds /\ dead[r] \subseteq Destroyed
  BY DEF Inv, HandlerInv, AskInv
<1>5. "done" \in Path[ask[r].kind]
  BY <1>4, KindOf DEF Inv, HandlerInv
<1>6. HandlerInv(r)'
  BY <1>3, <1>4, <1>5 DEF HandlerInv, TableStep, HasUser, HasRow, BindStates
<1> QED BY <1>2, <1>6, StepKeeps

LEMMA RefuseKeeps ==
  ASSUME Inv, NEW r \in Requests, Refuse(r), TableStep(r), pc[r] # "idle" PROVE Inv'
BY ReplyKeeps, NobodyDead DEF Refuse

\* On to a state of its path, with what HandlerInv asks for there.
LEMMA GotoKeeps ==
  ASSUME Inv, NEW r \in Requests, TableStep(r), pc[r] # "idle",
         NEW p \in Path[ask[r].kind] \ {"done", "idle"}, NEW u, NEW loaded, Goto(r, p, u, loaded),
         p \in HasUser => u \in DOMAIN users',
         p \in HasRow => loaded = Loaded(loaded.now) /\ DOMAIN loaded.now = Cols,
         p \in BindStates => /\ ask[r].wechat \in Unions
                             /\ ask[r].kind \in SignIns => u \notin dead[r],
         p = "applesave" => /\ u \in dead[r] => loaded.now.status = "deleted"
                            /\ \/ loaded.now.apple_uid = ask[r].apple
                               \/ users'[u].email = ask[r].name,
         p \in {"bindcheck", "bindsave"} => users'[u].union_id = Null \/ "union_id" \in since'[r]
  PROVE  Inv'
<1>1. /\ pc' = [pc EXCEPT ![r] = p] /\ user' = [user EXCEPT ![r] = u]
      /\ inst' = [inst EXCEPT ![r] = loaded] /\ ask' = ask /\ answer' = answer
  BY DEF Goto
<1>2. RequestStep(r)
  BY <1>1 DEF RequestStep, Inv, DomainInv
<1>3. pc'[r] = p /\ user'[r] = u /\ inst'[r] = loaded /\ ask'[r] = ask[r] /\ dead'[r] = dead[r]
  BY <1>1 DEF Inv, DomainInv, TableStep
<1>4. AskInv(ask[r]) /\ dead'[r] \subseteq Destroyed'
  BY <1>3 DEF Inv, HandlerInv, TableStep
<1>5. HandlerInv(r)'
  BY <1>3, <1>4 DEF HandlerInv
<1> QED BY <1>2, <1>5, StepKeeps

\* A sign-in that has a user who was not destroyed when it began.
LEMMA SignedInKeeps ==
  ASSUME Inv, NEW r \in Requests, TableStep(r), pc[r] # "idle", ask[r].kind \in SignIns,
         NEW u \in DOMAIN users', u \notin dead[r], SignedIn(r, u)
  PROVE  Inv'
<1>1. AskInv(ask[r])
  BY DEF Inv, HandlerInv
<1>2. CASE ask[r].wechat # None /\ ask[r].kind # "wechat"
  <2>1. Goto(r, "bind", u, None)
    BY <1>2 DEF SignedIn
  <2>2. ask[r].wechat \in Unions
    BY <1>1, <1>2 DEF AskInv
  <2>3. ask[r].kind \in AllKinds /\ "bind" \in Path[ask[r].kind]
    BY <1>1, <1>2, KindOf DEF Inv, HandlerInv, AskInv, BindStates
  <2> QED BY <2>1, <2>2, <2>3, GotoKeeps DEF HasRow, BindStates
<1>3. CASE ~(ask[r].wechat # None /\ ask[r].kind # "wechat")
  <2>1. /\ pc' = [pc EXCEPT ![r] = "done"] /\ answer' = [answer EXCEPT ![r] = u]
        /\ user' = [user EXCEPT ![r] = u] /\ inst' = [inst EXCEPT ![r] = None] /\ ask' = ask
    BY <1>3 DEF SignedIn
  <2>2. RequestStep(r)
    BY <2>1 DEF RequestStep, Inv, DomainInv
  <2>3. pc'[r] = "done" /\ ask'[r] = ask[r] /\ answer'[r] = u /\ dead'[r] = dead[r]
    BY <2>1 DEF Inv, DomainInv, TableStep
  <2>4. "done" \in Path[ask[r].kind] /\ dead[r] \subseteq Destroyed
    BY <1>1, KindOf DEF Inv, HandlerInv, AskInv
  <2>5. HandlerInv(r)'
    BY <1>1, <2>3, <2>4 DEF HandlerInv, TableStep, HasUser, HasRow, BindStates
  <2> QED BY <2>2, <2>5, StepKeeps
<1> QED BY <1>2, <1>3

LEMMA BindDoneKeeps ==
  ASSUME Inv, NEW r \in Requests, TableStep(r), pc[r] \in BindStates, NEW ok, BindDone(r, ok)
  PROVE  Inv'
<1>1. ask[r].kind \in SignIns => user[r] \notin dead[r]
  BY DEF Inv, HandlerInv
<1>2. ask[r].kind # "check" /\ pc[r] # "idle"
  BY KindOf DEF Inv, HandlerInv, AskInv, BindStates
<1>3. None \notin dead[r]
  BY NobodyDead
<1> DEFINE u == IF ok \/ ask[r].kind # "bind" THEN user[r] ELSE None
<1>4. Reply(r, u)
  BY DEF BindDone
<1>5. ask[r].kind \in SignIns \cup {"check"} => u \notin dead[r]
  BY <1>1, <1>2, <1>3
<1> QED BY <1>2, <1>4, <1>5, ReplyKeeps

-----------------------------------------------------------------------------
(* Writes.                                                                 *)

LEMMA SetsNoEmail == \A k \in AllKinds : "email" \notin Sets[k]
BY DEF Sets, AllKinds, SignIns, LookOnly

\* An update of columns the request is there to set, of the row of its user.
LEMMA WriteStep ==
  ASSUME Inv, NEW r \in Requests, pc[r] # "idle", NEW u \in DOMAIN users, NEW kv,
         Write(r, u, kv), DOMAIN kv \subseteq Sets[ask[r].kind],
         "status" \in DOMAIN kv => kv.status = "deleted",
         \A c \in DOMAIN kv \cap UniqueCols : kv[c] # Blank,
         "apple_uid" \in DOMAIN kv => kv.apple_uid # Null,
         "union_id" \in DOMAIN kv => users[u].union_id = Null \/ "union_id" \in since[r],
         "apple_uid" \in DOMAIN kv =>
           /\ ask[r].kind = "apple"
           /\ ask[r].name # None /\ ask[r].name = users[u].email
  PROVE  TableStep(r)
<1> DEFINE changed == {c \in DOMAIN kv : kv[c] # users[u][c]}
           noted == {c \in changed : c \in since[r] \/ (c \in LinkCols /\ users[u][c] # Null)}
           note(c) == [col |-> c, old |-> users[u][c], kind |-> ask[r].kind,
                       raced |-> c \in since[r],
                       mail |-> ask[r].name # None /\ ask[r].name = users[u].email]
<1>1. /\ users' = UpdateFields(users, u, kv) /\ dead' = dead
      /\ since' = [s \in Requests |-> IF s # r /\ user[s] = u /\ pc[s] # "done"
                                        THEN since[s] \cup changed ELSE since[s]]
      /\ overwrites' = overwrites \cup {note(c) : c \in noted}
  BY DEF Write
<1>2. ask[r].kind \in AllKinds /\ "email" \notin DOMAIN kv
  BY SetsNoEmail DEF Inv, HandlerInv, AskInv
<1>3. /\ DOMAIN users' = DOMAIN users
      /\ \A i \in DOMAIN users \ {u} : users'[i] = users[i]
      /\ DOMAIN users'[u] = DOMAIN users[u]
      /\ \A c \in DOMAIN users[u] : users'[u][c] = IF c \in DOMAIN kv THEN kv[c] ELSE users[u][c]
  BY <1>1 DEF UpdateFields
<1>4. DOMAIN users[u] = Cols
  BY DEF Inv, RowInv
<1> HIDE DEF changed, noted, note
<1>5. RowInv'
  <2>1. users'[u].email = users[u].email
    BY <1>2, <1>3, <1>4 DEF Cols
  <2>2. \A c \in UniqueCols : users'[u][c] = Blank => users[u][c] = Blank
    BY <1>3, <1>4 DEF UniqueCols, Cols
  <2>3. users[u].apple_uid # Null => users'[u].apple_uid # Null
    BY <1>3, <1>4 DEF Cols
  <2>4. BlankIsApples(users)
    BY DEF Inv, RowInv
  <2>5. BlankIsApples(users')
    BY <1>3, <2>1, <2>2, <2>3, <2>4 DEF BlankIsApples
  <2> QED BY <1>3, <1>4, <2>5 DEF Inv, RowInv, BlankIsApples
<1>6. Destroyed \subseteq Destroyed' /\ \A i \in DOMAIN users : users'[i].email = users[i].email
  <2>1. users'[u].email = users[u].email /\ (users[u].status = "deleted" => users'[u].status = "deleted")
    BY <1>2, <1>3, <1>4 DEF Cols
  <2> QED BY <1>3, <2>1 DEF Destroyed
<1>7. OverwriteInv'
  <2>1. ASSUME NEW c \in noted
        PROVE  /\ note(c).col \in Sets[note(c).kind]
               /\ note(c).col = "union_id" /\ note(c).old # Null => note(c).raced
               /\ note(c).col = "apple_uid" /\ note(c).old # Null =>
                    note(c).kind = "apple" /\ (note(c).mail \/ note(c).raced)
    <3>1. c \in DOMAIN kv
      BY DEF noted, changed
    <3>2. c \in Sets[ask[r].kind]
      BY <3>1
    <3>3. c = "union_id" /\ users[u][c] # Null => c \in since[r]
      BY <3>1
    <3>4. c = "apple_uid" => /\ ask[r].kind = "apple"
                             /\ ask[r].name # None /\ ask[r].name = users[u].email
      BY <3>1
    <3>5. /\ note(c).col = c /\ note(c).old = users[u][c] /\ note(c).kind = ask[r].kind
          /\ note(c).raced = (c \in since[r])
          /\ note(c).mail = (ask[r].name # None /\ ask[r].name = users[u].email)
      BY DEF note
    <3> QED BY <3>2, <3>3, <3>4, <3>5
  <2>2. OverwriteInv
    BY DEF Inv
  <2> QED BY <1>1, <2>1, <2>2 DEF OverwriteInv
<1>8. ASSUME NEW s \in Requests \ {r}
      PROVE  /\ since[s] \subseteq since'[s]
             /\ pc[s] # "done" /\ user[s] \in DOMAIN users =>
                  users'[user[s]].union_id = users[user[s]].union_id \/ "union_id" \in since'[s]
  <2>1. since[s] \subseteq since'[s]
    BY <1>1
  <2>2. CASE user[s] = u /\ pc[s] # "done" /\ users'[u].union_id # users[u].union_id
    <3>1. "union_id" \in changed
      BY <1>3, <1>4, <2>2 DEF changed, Cols
    <3> QED BY <1>1, <2>1, <2>2, <3>1
  <2>3. CASE user[s] # u
    BY <1>3, <2>1, <2>3
  <2> QED BY <2>1, <2>2, <2>3
<1>9. DOMAIN since' = Requests
  BY <1>1
<1> QED BY <1>1, <1>3, <1>5, <1>6, <1>7, <1>8, <1>9 DEF TableStep

\* A new row.
LEMMA CreateStep ==
  ASSUME Inv, NEW r \in Requests, NEW u \in Users \ DOMAIN users, NEW kv,
         users' = Create(users, u, Cols, kv), UNCHANGED <<dead, since, overwrites>>,
         Unique(users, u, kv, UniqueCols),
         \A c \in DOMAIN kv \cap UniqueCols : kv[c] = Blank =>
           c = "email" /\ "apple_uid" \in DOMAIN kv /\ kv.apple_uid # Null
  PROVE  TableStep(r) /\ u \in DOMAIN users'
<1>1. /\ DOMAIN users' = DOMAIN users \cup {u}
      /\ \A i \in DOMAIN users : users'[i] = users[i]
      /\ users'[u] = [c \in Cols |-> IF c \in DOMAIN kv THEN kv[c] ELSE Null]
  BY DEF Create, Object
<1>2. BlankIsApples(users')
  <2>1. \A c \in UniqueCols : users'[u][c] = Blank =>
          c = "email" /\ "email" \in DOMAIN kv /\ kv.email = Blank /\ users'[u].apple_uid # Null
    BY <1>1, BlankIsAValue DEF UniqueCols, Cols
  <2>2. users'[u].email = Blank => \A v \in DOMAIN users : users[v].email # Blank
    BY <1>1, <2>1, BlankIsAValue DEF Unique, Having, UniqueCols
  <2>3. BlankIsApples(users)
    BY DEF Inv, RowInv
  <2> QED BY <1>1, <2>1, <2>2, <2>3 DEF BlankIsApples
<1>3. RowInv' /\ OverwriteInv'
  BY <1>1, <1>2 DEF Inv, RowInv, OverwriteInv, BlankIsApples
<1>4. Destroyed \subseteq Destroyed'
  BY <1>1 DEF Destroyed
<1> QED BY <1>1, <1>3, <1>4 DEF TableStep, Inv, DomainInv

-----------------------------------------------------------------------------
(* The columns written.                                                    *)

\* Where each kind may go on.
LEMMA PathOn ==
  ASSUME NEW k \in AllKinds
  PROVE  /\ k = "code" => "count" \in Path[k]
         /\ k \in {"code", "signup", "wechat", "apple"} => "insert" \in Path[k]
         /\ k = "apple" => "applesave" \in Path[k]
         /\ k = "reset" => "setpassword" \in Path[k]
         /\ k = "phone" => {"taken", "setphone"} \subseteq Path[k]
         /\ k \in {"code", "signup", "password", "apple", "bind"} => BindStates \subseteq Path[k]
BY DEF Path, AllKinds, SignIns, LookOnly, BindStates

LEMMA AppleColumn ==
  ASSUME NEW row, DOMAIN row = Cols, NEW a,
         NEW kv, kv = StaledKV([Loaded(row) EXCEPT !.now.apple_uid = a], {"apple_uid"})
  PROVE  /\ DOMAIN kv \subseteq {"apple_uid"}
         /\ \A c \in DOMAIN kv : kv[c] = a
         /\ DOMAIN kv # {} => row.apple_uid # a
<1> DEFINE o == [Loaded(row) EXCEPT !.now.apple_uid = a]
<1>1. o.orig = row /\ o.now = [row EXCEPT !.apple_uid = a]
  BY DEF Loaded
<1>2. kv = [c \in {k \in DOMAIN o.now : k \in {"apple_uid"} /\ o.now[k] # o.orig[k]} |-> o.now[c]]
  BY DEF StaledKV
<1> HIDE DEF o
<1> QED BY <1>1, <1>2 DEF Cols

LEMMA BindColumns ==
  ASSUME NEW row, DOMAIN row = Cols, NEW w,
         NEW kv, kv = StaledKV(Filled(Loaded(row), w), {"union_id", "realname", "avatar"})
  PROVE  /\ DOMAIN kv \subseteq {"union_id", "realname", "avatar"}
         /\ "union_id" \in DOMAIN kv => kv.union_id = w
<1> DEFINE o == Filled(Loaded(row), w)
           only == {"union_id", "realname", "avatar"}
<1>1. o.now = [c \in DOMAIN row |->
                 IF c = "union_id" THEN w
                 ELSE IF c \in {"realname", "avatar"} /\ ValueOrZero(row[c]) = Blank THEN "nickname"
                 ELSE row[c]]
  BY DEF Filled, Loaded
<1>2. kv = [c \in {k \in DOMAIN o.now : k \in only /\ o.now[k] # o.orig[k]} |-> o.now[c]]
  BY DEF StaledKV
<1> HIDE DEF o
<1> QED BY <1>1, <1>2 DEF Cols

LEMMA NewUserColumns ==
  ASSUME NEW a, AskInv(a), a.kind \in {"code", "signup", "wechat", "apple"},
         NEW kv, kv = StaledKV(NewUser(a), Cols)
  PROVE  \A c \in DOMAIN kv \cap UniqueCols : kv[c] = Blank =>
           c = "email" /\ "apple_uid" \in DOMAIN kv /\ kv.apple_uid # Null
<1> DEFINE plain == [Blanks EXCEPT !.status = "active"]
<1>1. DOMAIN Blanks = Cols /\ DOMAIN plain = Cols
  BY DEF Blanks
<1>2. \A p, allows : DOMAIN p = Cols =>
        \A c \in Cols : ToN(p, allows).now[c] = (IF c \in allows THEN p[c] ELSE Null)
  BY DEF ToN, Object
<1>3. CASE a.kind = "wechat"
  <2> DEFINE p == [plain EXCEPT !.union_id = a.wechat, !.realname = "nickname",
                                  !.avatar = "nickname"]
  <2>2. NewUser(a) = ToN(p, {"union_id", "avatar", "realname", "status"})
    BY <1>3 DEF NewUser
  <2>3. DOMAIN p = Cols /\ p.union_id = a.wechat
    BY <1>1 DEF Cols
  <2>4. a.wechat # Blank
    BY <1>3, Ids DEF AskInv
  <2> HIDE DEF p
  <2> QED BY <1>2, <2>2, <2>3, <2>4, BlankIsAValue DEF StaledKV, UniqueCols, Cols
<1>4. CASE a.kind = "apple"
  <2> DEFINE p == [plain EXCEPT !.apple_uid = a.apple, !.email = a.name]
  <2>2. NewUser(a) = ToN(p, {"apple_uid", "email", "realname", "status"})
    BY <1>4 DEF NewUser
  <2>3. DOMAIN p = Cols /\ p.apple_uid = a.apple /\ p.email = a.name
    BY <1>1 DEF Cols
  <2>4. a.apple # Blank /\ a.apple # Null
    BY <1>4, Ids DEF AskInv
  <2> HIDE DEF p
  <2>5. /\ DOMAIN NewUser(a).now = Cols
        /\ \A c \in Cols : NewUser(a).orig[c] = Null
    BY <2>2, <2>3 DEF ToN, Object, Original
  <2>6. /\ NewUser(a).now.apple_uid = a.apple /\ NewUser(a).now.phone = Null
        /\ NewUser(a).now.union_id = Null
    BY <1>2, <2>2, <2>3 DEF Cols
  <2>7. "apple_uid" \in DOMAIN kv /\ \A c \in DOMAIN kv : kv[c] = NewUser(a).now[c]
    BY <2>4, <2>5, <2>6 DEF StaledKV, Cols
  <2> QED BY <2>4, <2>6, <2>7, BlankIsAValue DEF UniqueCols
<1>5. CASE a.kind \in {"code", "signup"}
  <2> DEFINE n == NameCol(a.name)
             p == [[plain EXCEPT !.password = IF a.kind = "signup" THEN "hash" ELSE Blank]
                      EXCEPT ![n] = a.name]
  <2>2. NewUser(a) = ToN(p, {n, "password", "realname", "status"})
    BY <1>5 DEF NewUser
  <2>3. n \in {"phone", "email"}
    BY DEF NameCol
  <2>4. DOMAIN p = Cols /\ p[n] = a.name
    BY <1>1, <2>3 DEF Cols
  <2>5. a.name # Blank
    BY <1>5, Ids DEF AskInv
  <2> HIDE DEF n, p
  <2> QED BY <1>2, <2>2, <2>3, <2>4, <2>5, BlankIsAValue DEF StaledKV, UniqueCols, Cols
<1> QED BY <1>3, <1>4, <1>5

-----------------------------------------------------------------------------
(* The actions.                                                            *)

LEMMA Known ==
  ASSUME Inv, NEW r \in Requests, pc[r] # "idle"
  PROVE  AskInv(ask[r]) /\ ask[r].kind \in AllKinds /\ pc[r] \in Path[ask[r].kind]
         /\ dead[r] \subseteq Destroyed
BY DEF Inv, HandlerInv, AskInv

LEMMA ReceiveKeeps == ASSUME Inv, NEW r \in Requests, Receive(r) PROVE Inv'
<1>1. PICK k \in Kinds : \E a \in Asked(k) :
        /\ pc' = [pc EXCEPT ![r] = FirstState[k]] /\ ask' = [ask EXCEPT ![r] = a]
        /\ user' = [user EXCEPT ![r] = a.from]
  BY DEF Receive
<1>2. PICK a \in Asked(k) :
        /\ pc' = [pc EXCEPT ![r] = FirstState[k]] /\ ask' = [ask EXCEPT ![r] = a]
        /\ user' = [user EXCEPT ![r] = a.from]
  BY <1>1
<1>3. /\ users' = users /\ inst' = inst /\ answer' = answer /\ since' = since
      /\ overwrites' = overwrites /\ dead' = [dead EXCEPT ![r] = Destroyed]
  BY DEF Receive
<1>4. k \in AllKinds
  BY IdentityConstants DEF IdentityConstants
<1>5. a.kind = k /\ AskInv(a)
      /\ (k \in {"bind", "phone", "newpassword", "destroy", "profile"} => a.from \in DOMAIN users)
  BY AskedRight
<1>6. /\ FirstState[k] \in Path[k] \ {"done", "idle", "applesave"}
      /\ FirstState[k] \notin {"bindcheck", "bindsave"}
      /\ FirstState[k] \in HasUser =>
           k \in {"bind", "phone", "newpassword", "destroy", "profile"}
      /\ FirstState[k] \in BindStates => k = "bind"
  BY <1>4, FirstIsOnPath, KindOf DEF HasUser, BindStates
<1>7. RowInv' /\ OverwriteInv' /\ DomainInv' /\ Destroyed' = Destroyed
  BY <1>2, <1>3 DEF Inv, RowInv, OverwriteInv, DomainInv, Destroyed
<1>8. ASSUME NEW s \in Requests \ {r} PROVE HandlerInv(s)'
  <2>1. /\ pc'[s] = pc[s] /\ ask'[s] = ask[s] /\ user'[s] = user[s] /\ dead'[s] = dead[s]
        /\ inst'[s] = inst[s] /\ answer'[s] = answer[s] /\ since'[s] = since[s]
    BY <1>2, <1>3 DEF Inv, DomainInv
  <2>2. HandlerInv(s)
    BY DEF Inv
  <2> QED BY <1>3, <1>7, <2>1, <2>2 DEF HandlerInv
<1>9. HandlerInv(r)'
  <2>1. /\ pc'[r] = FirstState[k] /\ ask'[r] = a /\ user'[r] = a.from /\ dead'[r] = Destroyed
    BY <1>2, <1>3 DEF Inv, DomainInv
  <2>2. FirstState[k] \in BindStates => a.wechat \in Unions /\ a.kind \notin SignIns
    BY <1>5, <1>6 DEF AskInv, SignIns
  <2> QED BY <1>3, <1>5, <1>6, <1>7, <2>1, <2>2 DEF HandlerInv, HasRow
<1> QED BY <1>7, <1>8, <1>9 DEF Inv

LEMMA LookUpsKeep == ASSUME Inv, NEW r \in Requests, LookUps(r) PROVE Inv'
<1>1. ASSUME CheckPhoneExistence(r) \/ TrySignInWithWechat(r) \/ FindByName(r)
             \/ SignInWithPassword(r) \/ SignUpCount(r)
      PROVE  TableStep(r) /\ users' = users
  BY <1>1, ReadStep DEF CheckPhoneExistence, TrySignInWithWechat, FindByName,
                        SignInWithPassword, SignUpCount
<1>2. \A n : ByName(n) \subseteq DOMAIN users
  BY DEF ByName, Having
<1>3. CASE CheckPhoneExistence(r)
  <2>1. pc[r] = "check" /\ (Refuse(r) \/ \E u \in ByName(ask[r].name) \ Destroyed : Reply(r, u))
    BY <1>3 DEF CheckPhoneExistence
  <2>2. dead[r] \subseteq Destroyed
    BY <2>1, Known
  <2> QED BY <1>1, <1>3, <2>1, <2>2, ReplyKeeps, RefuseKeeps
<1>4. CASE TrySignInWithWechat(r)
  <2>1. pc[r] = "try" /\ (Refuse(r) \/ \E u : Reply(r, u))
    BY <1>4 DEF TrySignInWithWechat
  <2>2. ask[r].kind = "try"
    BY <2>1, Known, KindOf
  <2> QED BY <1>1, <1>4, <2>1, <2>2, ReplyKeeps, RefuseKeeps DEF SignIns
<1>5. CASE FindByName(r)
  <2>1. pc[r] = "find" /\ TableStep(r) /\ users' = users
    BY <1>1, <1>5 DEF FindByName
  <2>2. ask[r].kind \in {"code", "reset"} /\ dead[r] \subseteq Destroyed /\ ask[r].kind \in AllKinds
    BY <2>1, Known, KindOf
  <2>3. CASE ask[r].kind = "code"
    <3>1. \/ Goto(r, "count", None, None) \/ Refuse(r)
          \/ \E u \in ByName(ask[r].name) \ Destroyed : SignedIn(r, u)
      BY <1>5, <2>3 DEF FindByName
    <3>2. "count" \in Path[ask[r].kind]
      BY <2>2, <2>3, PathOn
    <3>3. Goto(r, "count", None, None) => Inv'
      BY <2>1, <3>2, GotoKeeps DEF HasUser, HasRow, BindStates
    <3> QED BY <1>2, <2>1, <2>2, <2>3, <3>1, <3>3, RefuseKeeps, SignedInKeeps DEF SignIns
  <2>4. CASE ask[r].kind = "reset"
    <3>1. Refuse(r) \/ \E u \in ByName(ask[r].name) : Goto(r, "setpassword", u, None)
      BY <1>5, <2>4 DEF FindByName
    <3>2. "setpassword" \in Path[ask[r].kind]
      BY <2>2, <2>4, PathOn
    <3>3. ASSUME NEW u \in ByName(ask[r].name), Goto(r, "setpassword", u, None) PROVE Inv'
      BY <1>2, <2>1, <3>2, <3>3, GotoKeeps DEF HasUser, HasRow, BindStates
    <3> QED BY <2>1, <3>1, <3>3, RefuseKeeps
  <2> QED BY <2>2, <2>3, <2>4
<1>6. CASE SignInWithPassword(r)
  <2>1. pc[r] = "signin" /\ TableStep(r) /\ users' = users
    BY <1>1, <1>6 DEF SignInWithPassword
  <2>2. ask[r].kind = "password" /\ dead[r] \subseteq Destroyed
    BY <2>1, Known, KindOf
  <2>3. Refuse(r) \/ \E u \in ByName(ask[r].name) \ Destroyed : SignedIn(r, u)
    BY <1>6 DEF SignInWithPassword
  <2> QED BY <1>2, <2>1, <2>2, <2>3, RefuseKeeps, SignedInKeeps DEF SignIns
<1>7. CASE SignUpCount(r)
  <2>1. pc[r] = "count" /\ TableStep(r) /\ users' = users
    BY <1>1, <1>7 DEF SignUpCount
  <2>2. "insert" \in Path[ask[r].kind]
    BY <2>1, Known, KindOf, PathOn
  <2>3. Goto(r, "insert", None, None) => Inv'
    BY <2>1, <2>2, GotoKeeps DEF HasUser, HasRow, BindStates
  <2> QED BY <1>7, <2>1, <2>3, RefuseKeeps DEF SignUpCount
<1>8. CASE SignUpInsert(r)
  <2>1. pc[r] = "insert" /\ UNCHANGED <<dead, since, overwrites>>
    BY <1>8 DEF SignUpInsert, history
  <2>2. /\ AskInv(ask[r]) /\ ask[r].kind \in {"code", "signup", "wechat", "apple"}
        /\ dead[r] \subseteq DOMAIN users
    BY <2>1, Known, KindOf, NobodyDead
  <2> DEFINE kv == StaledKV(NewUser(ask[r]), Cols)
  <2>3. \A c \in DOMAIN kv \cap UniqueCols : kv[c] = Blank =>
          c = "email" /\ "apple_uid" \in DOMAIN kv /\ kv.apple_uid # Null
    BY <2>2, NewUserColumns
  <2>4. PICK u \in Users \ DOMAIN users :
          \/ /\ Unique(users, u, kv, UniqueCols)
             /\ users' = Create(users, u, Cols, kv) /\ SignedIn(r, u)
          \/ UNCHANGED users /\ Refuse(r)
    BY <1>8 DEF SignUpInsert
  <2> HIDE DEF kv
  <2>5. CASE /\ Unique(users, u, kv, UniqueCols)
             /\ users' = Create(users, u, Cols, kv) /\ SignedIn(r, u)
    <3>1. TableStep(r) /\ u \in DOMAIN users'
      BY <2>1, <2>3, <2>5, CreateStep
    <3> QED BY <2>1, <2>2, <2>5, <3>1, SignedInKeeps DEF SignIns
  <2>6. CASE UNCHANGED users /\ Refuse(r)
    BY <2>1, <2>6, SameTable, RefuseKeeps
  <2> QED BY <2>4, <2>5, <2>6
<1> QED BY <1>3, <1>4, <1>5, <1>6, <1>7, <1>8 DEF LookUps

LEMMA AppleSavedKeeps ==
  ASSUME Inv, NEW r \in Requests, pc[r] = "applesave", TableStep(r), AppleSaved(r) PROVE Inv'
<1>1. ask[r].kind = "apple"
  BY Known, KindOf
<1>2. /\ user[r] \in DOMAIN users /\ DOMAIN users \subseteq DOMAIN users'
      /\ user[r] \in dead[r] => inst[r].now.status = "deleted"
  BY DEF Inv, HandlerInv, HasUser, TableStep
<1> QED BY <1>1, <1>2, RefuseKeeps, SignedInKeeps DEF AppleSaved, SignIns

LEMMA ExternalKeeps == ASSUME Inv, NEW r \in Requests, External(r) PROVE Inv'
<1>1. \A c, v : Having(users, c, v) \subseteq DOMAIN users
  BY DEF Having
<1>2. CASE SignInWithWeChat(r)
  <2>1. pc[r] = "wechat" /\ TableStep(r) /\ users' = users
    BY <1>2, ReadStep DEF SignInWithWeChat
  <2>2. ask[r].kind = "wechat" /\ dead[r] \subseteq Destroyed /\ "insert" \in Path[ask[r].kind]
    BY <2>1, Known, KindOf, PathOn
  <2>3. \/ Goto(r, "insert", None, None) \/ Refuse(r)
        \/ \E u \in Having(users, "union_id", ask[r].wechat) \ Destroyed : SignedIn(r, u)
    BY <1>2 DEF SignInWithWeChat
  <2>4. Goto(r, "insert", None, None) => Inv'
    BY <2>1, <2>2, GotoKeeps DEF HasUser, HasRow, BindStates
  <2> QED BY <1>1, <2>1, <2>2, <2>3, <2>4, RefuseKeeps, SignedInKeeps DEF SignIns
<1>3. CASE SignInWithApple(r)
  <2>1. pc[r] = "apple" /\ TableStep(r) /\ users' = users
    BY <1>3, ReadStep DEF SignInWithApple
  <2>2. /\ ask[r].kind = "apple" /\ dead[r] \subseteq Destroyed
        /\ "insert" \in Path[ask[r].kind] /\ "applesave" \in Path[ask[r].kind]
    BY <2>1, Known, KindOf, PathOn
  <2> DEFINE mine    == Having(users, "apple_uid", ask[r].apple)
             matched == mine \cup Having(users, "email", ask[r].name)
  <2>3. \/ Goto(r, "insert", None, None) \/ Refuse(r)
        \/ \E u \in matched : Goto(r, "applesave", u, Loaded(users[u]))
        \/ \E u \in mine \ Destroyed : SignedIn(r, u)
    BY <1>3 DEF SignInWithApple
  <2>4. Goto(r, "insert", None, None) => Inv'
    BY <2>1, <2>2, GotoKeeps DEF HasUser, HasRow, BindStates
  <2>5. ASSUME NEW u \in matched, Goto(r, "applesave", u, Loaded(users[u])) PROVE Inv'
    <3>1. /\ Loaded(users[u]) = Loaded(Loaded(users[u]).now) /\ Loaded(users[u]).now = users[u]
          /\ u \in DOMAIN users /\ DOMAIN users[u] = Cols
      BY <1>1 DEF Loaded, Inv, RowInv
    <3>2. u \in dead[r] => users[u].status = "deleted"
      BY <2>2 DEF Destroyed
    <3>3. users[u].apple_uid = ask[r].apple \/ users'[u].email = ask[r].name
      BY <2>1 DEF Having
    <3> QED BY <2>1, <2>2, <2>5, <3>1, <3>2, <3>3, GotoKeeps DEF BindStates
  <2> QED BY <1>1, <2>1, <2>2, <2>3, <2>4, <2>5, RefuseKeeps, SignedInKeeps DEF SignIns
<1>4. CASE AppleSave(r)
  <2>1. pc[r] = "applesave" /\ AppleSaved(r)
    BY <1>4 DEF AppleSave
  <2>2. /\ AskInv(ask[r]) /\ ask[r].kind = "apple"
    BY <2>1, Known, KindOf
  <2>3. /\ user[r] \in DOMAIN users /\ inst[r] = Loaded(inst[r].now) /\ DOMAIN inst[r].now = Cols
        /\ inst[r].now.apple_uid = ask[r].apple \/ users[user[r]].email = ask[r].name
    BY <2>1 DEF Inv, HandlerInv, HasUser, HasRow
  <2> DEFINE kv == StaledKV([inst[r] EXCEPT !.now.apple_uid = ask[r].apple], {"apple_uid"})
  <2>4. /\ DOMAIN kv \subseteq {"apple_uid"} /\ (\A c \in DOMAIN kv : kv[c] = ask[r].apple)
        /\ DOMAIN kv # {} => inst[r].now.apple_uid # ask[r].apple
    BY <2>3, AppleColumn
  <2>5. Write(r, user[r], kv) \/ UNCHANGED <<users, dead, since, overwrites>>
    BY <1>4 DEF AppleSave
  <2> HIDE DEF kv
  <2>6. ASSUME Write(r, user[r], kv) PROVE TableStep(r)
    <3>1. ask[r].apple # Blank /\ ask[r].apple # Null /\ ask[r].name # None
      BY <2>2, Ids DEF AskInv
    <3>2. "apple_uid" \in Sets[ask[r].kind]
      BY <2>2 DEF Sets, AllKinds, SignIns
    <3> QED BY <2>1, <2>2, <2>3, <2>4, <2>6, <3>1, <3>2, WriteStep
  <2> QED BY <2>1, <2>5, <2>6, SameTable, AppleSavedKeeps
<1> QED BY <1>2, <1>3, <1>4 DEF External

LEMMA BindingKeeps == ASSUME Inv, NEW r \in Requests, Binding(r) PROVE Inv'
<1>1. pc[r] \in BindStates
  BY DEF Binding, BindFirst, WeChatIsBond, BindSave, BindStates
<1>2. /\ AskInv(ask[r]) /\ BindStates \subseteq Path[ask[r].kind]
      /\ ask[r].kind \in {"code", "signup", "password", "apple", "bind"}
      /\ pc[r] # "idle" /\ pc[r] # "done"
  BY <1>1, Known, KindOf, PathOn DEF BindStates
<1>3. /\ user[r] \in DOMAIN users /\ ask[r].wechat \in Unions
      /\ ask[r].kind \in SignIns => user[r] \notin dead[r]
  BY <1>1 DEF Inv, HandlerInv, HasUser
<1>4. DOMAIN users[user[r]] = Cols /\ users[user[r]].union_id # Blank
  BY <1>3 DEF Inv, RowInv, BlankIsApples, UniqueCols
<1>5. CASE BindFirst(r)
  <2>1. TableStep(r) /\ users' = users
    BY <1>5, ReadStep DEF BindFirst
  <2>2. \/ BindDone(r, TRUE) \/ BindDone(r, FALSE)
        \/ /\ ValueOrZero(users[user[r]].union_id) = Blank
           /\ Goto(r, "bindcheck", user[r], Loaded(users[user[r]]))
    BY <1>5 DEF BindFirst
  <2>3. ASSUME ValueOrZero(users[user[r]].union_id) = Blank,
               Goto(r, "bindcheck", user[r], Loaded(users[user[r]]))
        PROVE  Inv'
    <3>1. users'[user[r]].union_id = Null
      BY <1>4, <2>1, <2>3 DEF ValueOrZero
    <3>2. /\ Loaded(users[user[r]]) = Loaded(Loaded(users[user[r]]).now)
          /\ Loaded(users[user[r]]).now = users[user[r]]
      BY DEF Loaded
    <3>3. "bindcheck" \in Path[ask[r].kind] \ {"done", "idle"}
      BY <1>2 DEF BindStates
    <3> QED BY <1>2, <1>3, <1>4, <2>1, <2>3, <3>1, <3>2, <3>3, GotoKeeps
  <2> QED BY <1>1, <2>1, <2>2, <2>3, BindDoneKeeps
<1>6. CASE WeChatIsBond(r)
  <2>1. TableStep(r) /\ users' = users /\ since' = since
    BY <1>6, SameTable DEF WeChatIsBond, history
  <2>2. /\ inst[r] = Loaded(inst[r].now) /\ DOMAIN inst[r].now = Cols
        /\ users[user[r]].union_id = Null \/ "union_id" \in since[r]
    BY <1>6 DEF WeChatIsBond, Inv, HandlerInv, HasRow
  <2>3. Goto(r, "bindsave", user[r], inst[r]) \/ BindDone(r, FALSE)
    BY <1>6 DEF WeChatIsBond
  <2>4. ASSUME Goto(r, "bindsave", user[r], inst[r]) PROVE Inv'
    <3>1. "bindsave" \in Path[ask[r].kind] \ {"done", "idle"}
      BY <1>2 DEF BindStates
    <3> QED BY <1>2, <1>3, <2>1, <2>2, <2>4, <3>1, GotoKeeps
  <2> QED BY <1>1, <2>1, <2>3, <2>4, BindDoneKeeps
<1>7. CASE BindSave(r)
  <2> DEFINE kv == StaledKV(Filled(inst[r], ask[r].wechat), {"union_id", "realname", "avatar"})
  <2>1. /\ inst[r] = Loaded(inst[r].now) /\ DOMAIN inst[r].now = Cols
        /\ users[user[r]].union_id = Null \/ "union_id" \in since[r]
    BY <1>7 DEF BindSave, Inv, HandlerInv, HasRow
  <2>2. /\ DOMAIN kv \subseteq {"union_id", "realname", "avatar"}
        /\ "union_id" \in DOMAIN kv => kv.union_id = ask[r].wechat
    BY <2>1, BindColumns
  <2>3. \/ Write(r, user[r], kv) /\ BindDone(r, TRUE)
        \/ UNCHANGED <<users, dead, since, overwrites>> /\ BindDone(r, FALSE)
    BY <1>7 DEF BindSave, history
  <2> HIDE DEF kv
  <2>4. ASSUME Write(r, user[r], kv) PROVE TableStep(r)
    <3>1. ask[r].wechat # Blank
      BY <1>3, Ids
    <3>2. {"union_id", "realname", "avatar"} \subseteq Sets[ask[r].kind]
      BY <1>2 DEF Sets, AllKinds, SignIns
    <3> QED BY <1>2, <1>3, <2>1, <2>2, <2>4, <3>1, <3>2, WriteStep DEF UniqueCols
  <2> QED BY <1>1, <2>3, <2>4, SameTable, BindDoneKeeps
<1> QED BY <1>5, <1>6, <1>7 DEF Binding

\* One column of the row of a request's user, by a request that is there to set it.
LEMMA UpdateKeeps ==
  ASSUME Inv, NEW r \in Requests, pc[r] \in HasUser, ask[r].kind \notin SignIns \cup {"check"},
         NEW col \in {"password", "status", "realname", "avatar", "phone"},
         col \in Sets[ask[r].kind], NEW v, Update(r, col, v),
         col = "status" => v = "deleted", col = "phone" => v # Blank
  PROVE  Inv'
<1> DEFINE kv == StaledKV(Object(Cols, [c \in {col} |-> v]), Cols)
<1>1. Write(r, user[r], kv) /\ Reply(r, user[r])
  BY DEF Update
<1>2. DOMAIN kv \subseteq {col} /\ \A c \in DOMAIN kv : kv[c] = v
  <2>1. col \in Cols
    BY DEF Cols
  <2> QED BY <2>1 DEF StaledKV, Object, Original
<1> HIDE DEF kv
<1>3. user[r] \in DOMAIN users /\ pc[r] # "idle"
  BY DEF Inv, HandlerInv, HasUser, BindStates
<1>4. TableStep(r)
  BY <1>1, <1>2, <1>3, WriteStep DEF UniqueCols
<1> QED BY <1>1, <1>3, <1>4, ReplyKeeps

LEMMA ChangesKeep == ASSUME Inv, NEW r \in Requests, Changes(r) PROVE Inv'
<1>1. CASE UpdatePassword(r)
  <2>1. pc[r] = "setpassword" /\ Update(r, "password", "hash")
    BY <1>1 DEF UpdatePassword
  <2>2. ask[r].kind \in {"reset", "newpassword"}
    BY <2>1, Known, KindOf
  <2>3. "password" \in Sets[ask[r].kind]
    BY <2>2 DEF Sets, AllKinds
  <2> QED BY <2>1, <2>2, <2>3, UpdateKeeps DEF SignIns, HasUser
<1>2. CASE UpdateStatus(r)
  <2>1. pc[r] = "destroy" /\ Update(r, "status", "deleted")
    BY <1>2 DEF UpdateStatus
  <2>2. ask[r].kind = "destroy"
    BY <2>1, Known, KindOf
  <2>3. "status" \in Sets[ask[r].kind]
    BY <2>2 DEF Sets, AllKinds
  <2> QED BY <2>1, <2>2, <2>3, UpdateKeeps DEF SignIns, HasUser
<1>3. CASE UpdateProfile(r)
  <2>1. /\ pc[r] = "profile"
        /\ \E col \in {"realname", "avatar"}, v \in {Blank, "chosen"} : Update(r, col, v)
    BY <1>3 DEF UpdateProfile
  <2>2. ask[r].kind = "profile"
    BY <2>1, Known, KindOf
  <2>3. {"realname", "avatar"} \subseteq Sets[ask[r].kind]
    BY <2>2 DEF Sets, AllKinds
  <2> QED BY <2>1, <2>2, <2>3, UpdateKeeps DEF SignIns, HasUser
<1>4. ASSUME pc[r] \in {"self", "taken", "setphone"}
      PROVE  /\ ask[r].kind = "phone" /\ user[r] \in DOMAIN users /\ AskInv(ask[r])
             /\ {"taken", "setphone"} \subseteq Path[ask[r].kind]
  BY <1>4, Known, KindOf, PathOn DEF Inv, HandlerInv, HasUser
<1>5. CASE PhoneSelf(r)
  <2>1. pc[r] = "self" /\ TableStep(r) /\ users' = users
    BY <1>5, ReadStep DEF PhoneSelf
  <2>2. Refuse(r) \/ Reply(r, user[r]) \/ Goto(r, "taken", user[r], None)
    BY <1>5 DEF PhoneSelf
  <2>3. Goto(r, "taken", user[r], None) => Inv'
    BY <1>4, <2>1, GotoKeeps DEF HasRow, BindStates
  <2> QED BY <1>4, <2>1, <2>2, <2>3, RefuseKeeps, ReplyKeeps DEF SignIns
<1>6. CASE PhoneTaken(r)
  <2>1. pc[r] = "taken" /\ TableStep(r) /\ users' = users
    BY <1>6, SameTable DEF PhoneTaken, history
  <2>2. Refuse(r) \/ Goto(r, "setphone", user[r], None)
    BY <1>6 DEF PhoneTaken
  <2>3. Goto(r, "setphone", user[r], None) => Inv'
    BY <1>4, <2>1, GotoKeeps DEF HasRow, BindStates
  <2> QED BY <2>1, <2>2, <2>3, RefuseKeeps
<1>7. CASE BindPhone(r)
  <2>1. /\ pc[r] = "setphone"
        /\ \/ Update(r, "phone", ask[r].name)
           \/ Refuse(r) /\ UNCHANGED <<users, dead, since, overwrites>>
    BY <1>7 DEF BindPhone, history
  <2>2. "phone" \in Sets[ask[r].kind] /\ ask[r].name # Blank
    BY <1>4, <2>1, Ids DEF Sets, AllKinds, AskInv
  <2>3. Update(r, "phone", ask[r].name) => Inv'
    BY <1>4, <2>1, <2>2, UpdateKeeps DEF SignIns, HasUser
  <2> QED BY <2>1, <2>3, SameTable, RefuseKeeps
<1> QED BY <1>1, <1>2, <1>3, <1>5, <1>6, <1>7 DEF Changes

LEMMA FailKeeps == ASSUME Inv, NEW r \in Requests, Fail(r) PROVE Inv'
<1>1. TableStep(r) /\ pc[r] # "idle"
  BY SameTable DEF Fail
<1>2. \/ pc[r] = "applesave" /\ AppleSaved(r)
      \/ pc[r] \in BindStates /\ BindDone(r, FALSE)
      \/ Refuse(r)
  BY DEF Fail, BindStates
<1> QED BY <1>1, <1>2, AppleSavedKeeps, BindDoneKeeps, RefuseKeeps

LEMMA NextInv == Inv /\ [Next]_vars => Inv'
<1> SUFFICES ASSUME Inv, [Next]_vars PROVE Inv'
  OBVIOUS
<1>1. CASE UNCHANGED vars
  BY <1>1 DEF vars, request, history, Inv, RowInv, DomainInv, OverwriteInv, HandlerInv, Destroyed
<1>2. ASSUME NEW r \in Requests,
             Receive(r) \/ LookUps(r) \/ External(r) \/ Binding(r) \/ Changes(r) \/ Fail(r)
      PROVE  Inv'
  BY <1>2, ReceiveKeeps, LookUpsKeep, ExternalKeeps, BindingKeeps, ChangesKeep, FailKeeps
<1> QED BY <1>1, <1>2 DEF Next

-----------------------------------------------------------------------------
(* Which user an id leads to. An answered claim is read back from the      *)
(* table: the id is still that user's, unless it was replaced in some row, *)
(* or a Save of it failed.                                                 *)

Leads(u, c, x) ==
  \/ x \in unsaved
  \/ \E o \in overwrites : o.old = x
  \/ u \in DOMAIN users /\ users[u][c] = x

ClaimKinds == {"wechat", "bind", "try", "apple"}

\* A sign-in with an Apple id goes on to bind a WeChat id only with a user who has that id;
\* a binding saves a row that it loaded without a WeChat id, so the save writes one.
ClaimInv(r) ==
  /\ pc[r] # "done" => answer[r] = None
  /\ answer[r] # None /\ ask[r].kind \in ClaimKinds => Leads(answer[r], Claim(r)[1], Claim(r)[2])
  /\ pc[r] \in BindStates /\ ask[r].kind = "apple" => Leads(user[r], "apple_uid", ask[r].apple)
  /\ pc[r] = "applesave" /\ inst[r].now.apple_uid = ask[r].apple =>
       Leads(user[r], "apple_uid", ask[r].apple)
  /\ pc[r] \in {"bindcheck", "bindsave"} => inst[r].now.union_id = Null

UniqueInv == \A c \in LinkCols : \A u, v \in DOMAIN users :
               users[u][c] = users[v][c] /\ users[u][c] # Null => u = v

Claims == UniqueInv /\ \A r \in Requests : ClaimInv(r)

\* What a step may do to the links.
LinkStep ==
  /\ UniqueInv'
  /\ \A u : \A c \in LinkCols : \A x \in Unions \cup Apples : Leads(u, c, x) => Leads(u, c, x)'

LEMMA InitClaims == Init => Claims
<1> SUFFICES ASSUME Init PROVE Claims
  OBVIOUS
<1>1. UniqueInv
  BY IdentityConstants DEF IdentityConstants, Init, RespectsIndexes, UniqueInv, UniqueCols,
                           LinkCols
<1>2. ASSUME NEW r \in Requests PROVE pc[r] = "idle" /\ answer[r] = None
  BY DEF Init
<1> QED BY <1>1, <1>2 DEF Claims, ClaimInv, BindStates

LEMMA LinksSame ==
  ASSUME Claims, UNCHANGED <<users, overwrites>>, unsaved \subseteq unsaved'
  PROVE  LinkStep
BY DEF LinkStep, Claims, UniqueInv, Leads

\* A write that the indexes let pass notes the link it replaces.
LEMMA LinksWritten ==
  ASSUME Inv, Claims, NEW r, NEW u \in DOMAIN users, NEW kv, Write(r, u, kv),
         \A c \in LinkCols \cap DOMAIN kv : Having(users, c, kv[c]) \subseteq {u}
  PROVE  /\ LinkStep
         /\ u \in DOMAIN users'
         /\ \A c \in LinkCols : users'[u][c] = IF c \in DOMAIN kv THEN kv[c] ELSE users[u][c]
<1> DEFINE changed == {c \in DOMAIN kv : kv[c] # users[u][c]}
           noted == {c \in changed : c \in since[r] \/ (c \in LinkCols /\ users[u][c] # Null)}
           note(c) == [col |-> c, old |-> users[u][c], kind |-> ask[r].kind,
                       raced |-> c \in since[r],
                       mail |-> ask[r].name # None /\ ask[r].name = users[u].email]
<1>1. users' = UpdateFields(users, u, kv)
      /\ overwrites' = overwrites \cup {note(c) : c \in noted} /\ unsaved' = unsaved
  BY DEF Write
<1>2. /\ DOMAIN users' = DOMAIN users
      /\ \A i \in DOMAIN users \ {u} : users'[i] = users[i]
      /\ \A c \in LinkCols : users'[u][c] = IF c \in DOMAIN kv THEN kv[c] ELSE users[u][c]
  BY <1>1 DEF UpdateFields, Inv, RowInv, LinkCols, Cols
<1>3. \A c \in noted : note(c) \in overwrites' /\ note(c).old = users[u][c]
  BY <1>1
<1>4. \A c \in LinkCols : users[u][c] # Null /\ users'[u][c] # users[u][c] => c \in noted
  BY <1>2
<1> HIDE DEF changed, noted, note
<1>5. UniqueInv'
  <2> SUFFICES ASSUME NEW c \in LinkCols, NEW i \in DOMAIN users, NEW j \in DOMAIN users,
                      users'[i][c] = users'[j][c], users'[i][c] # Null
               PROVE  i = j
    BY <1>2 DEF UniqueInv
  <2>1. \A v \in DOMAIN users \ {u} : users'[v][c] = users'[u][c] /\ users'[u][c] # Null => FALSE
    BY <1>2 DEF Claims, UniqueInv, Having
  <2> QED BY <1>2, <2>1 DEF Claims, UniqueInv
<1>6. ASSUME NEW i, NEW c \in LinkCols, NEW x \in Unions \cup Apples, Leads(i, c, x)
      PROVE  Leads(i, c, x)'
  <2>1. CASE x \in unsaved \/ \E o \in overwrites : o.old = x
    BY <1>1, <2>1 DEF Leads
  <2>2. CASE i \in DOMAIN users /\ users[i][c] = x
    <3>1. x # Null
      BY Ids
    <3>2. CASE users'[i][c] = x
      BY <1>2, <2>2, <3>2 DEF Leads
    <3>3. CASE users'[i][c] # x
      <4>1. i = u /\ c \in noted
        BY <1>2, <1>4, <2>2, <3>1, <3>3
      <4> QED BY <1>3, <2>2, <4>1 DEF Leads
    <3> QED BY <3>2, <3>3
  <2> QED BY <1>6, <2>1, <2>2 DEF Leads
<1> QED BY <1>2, <1>5, <1>6 DEF LinkStep

LEMMA LinksCreated ==
  ASSUME Claims, NEW u \in Users \ DOMAIN users, NEW kv, users' = Create(users, u, Cols, kv),
         Unique(users, u, kv, UniqueCols), UNCHANGED <<overwrites, unsaved>>
  PROVE  /\ LinkStep
         /\ u \in DOMAIN users'
         /\ \A c \in LinkCols \cap DOMAIN kv : users'[u][c] = kv[c]
<1>1. /\ DOMAIN users' = DOMAIN users \cup {u}
      /\ \A i \in DOMAIN users : users'[i] = users[i]
      /\ users'[u] = [c \in Cols |-> IF c \in DOMAIN kv THEN kv[c] ELSE Null]
  BY DEF Create, Object
<1>2. \A c \in LinkCols : users'[u][c] = IF c \in DOMAIN kv THEN kv[c] ELSE Null
  BY <1>1 DEF LinkCols, Cols
<1>3. \A c \in LinkCols : \A i \in DOMAIN users : users[i][c] # users'[u][c] \/ users[i][c] = Null
  BY <1>2 DEF Unique, Having, LinkCols, UniqueCols
<1>4. UniqueInv'
  BY <1>1, <1>3 DEF Claims, UniqueInv
<1>5. \A i : \A c \in LinkCols : \A x \in Unions \cup Apples : Leads(i, c, x) => Leads(i, c, x)'
  BY <1>1 DEF Leads
<1> QED BY <1>1, <1>2, <1>4, <1>5 DEF LinkStep

\* The claims of the other requests.
LEMMA ClaimsKept ==
  ASSUME Inv, Claims, LinkStep, NEW r \in Requests, RequestStep(r), ClaimInv(r)'
  PROVE  Claims'
<1>1. ASSUME NEW s \in Requests \ {r} PROVE ClaimInv(s)'
  <2>1. /\ pc'[s] = pc[s] /\ ask'[s] = ask[s] /\ user'[s] = user[s]
        /\ inst'[s] = inst[s] /\ answer'[s] = answer[s] /\ Claim(s)' = Claim(s)
    BY DEF RequestStep, Claim
  <2>2. ClaimInv(s) /\ HandlerInv(s)
    BY DEF Claims, Inv
  <2>3. answer[s] # None \/ pc[s] \in BindStates \/ pc[s] = "applesave" => AskInv(ask[s])
    BY <2>2 DEF ClaimInv, HandlerInv, BindStates
  <2>4. answer[s] # None /\ ask[s].kind \in ClaimKinds =>
          Claim(s)[1] \in LinkCols /\ Claim(s)[2] \in Unions \cup Apples
    BY <2>3 DEF Claim, AskInv, ClaimKinds, LinkCols
  <2>5. pc[s] = "applesave" => ask[s].kind = "apple"
    BY <2>2, KindOf DEF HandlerInv, AskInv
  <2>6. (pc[s] \in BindStates /\ ask[s].kind = "apple") \/ pc[s] = "applesave" => ask[s].apple \in Apples
    BY <2>3, <2>5 DEF AskInv
  <2>7. \A u, c, x : c \in LinkCols /\ x \in Unions \cup Apples /\ Leads(u, c, x) => Leads(u, c, x)'
    BY DEF LinkStep
  <2> QED BY <2>1, <2>2, <2>4, <2>6, <2>7 DEF ClaimInv, LinkCols
<1> QED BY <1>1 DEF Claims, LinkStep

\* The ways a handler goes on, seen by its own claim.
LEMMA ReplyClaims ==
  ASSUME Inv, Claims, LinkStep, NEW r \in Requests, NEW u, Reply(r, u),
         u # None /\ ask[r].kind \in ClaimKinds => Leads(u, Claim(r)[1], Claim(r)[2])'
  PROVE  Claims'
<1>1. /\ pc' = [pc EXCEPT ![r] = "done"] /\ answer' = [answer EXCEPT ![r] = u]
      /\ inst' = [inst EXCEPT ![r] = None] /\ ask' = ask /\ user' = user
  BY DEF Reply
<1>2. RequestStep(r)
  BY <1>1 DEF RequestStep, Inv, DomainInv
<1>3. pc'[r] = "done" /\ ask'[r] = ask[r] /\ answer'[r] = u /\ Claim(r)' = Claim(r)
  BY <1>1 DEF Inv, DomainInv, Claim
<1>4. ClaimInv(r)'
  BY <1>3 DEF ClaimInv, BindStates, Leads
<1> QED BY <1>2, <1>4, ClaimsKept

LEMMA RefuseClaims ==
  ASSUME Inv, Claims, LinkStep, NEW r \in Requests, Refuse(r) PROVE Claims'
BY ReplyClaims DEF Refuse

LEMMA GotoClaims ==
  ASSUME Inv, Claims, LinkStep, NEW r \in Requests, pc[r] # "done",
         NEW p, p # "done", NEW u, NEW loaded, Goto(r, p, u, loaded),
         p \in BindStates /\ ask[r].kind = "apple" => Leads(u, "apple_uid", ask[r].apple)',
         p = "applesave" /\ loaded.now.apple_uid = ask[r].apple =>
           Leads(u, "apple_uid", ask[r].apple)',
         p \in {"bindcheck", "bindsave"} => loaded.now.union_id = Null
  PROVE  Claims'
<1>1. /\ pc' = [pc EXCEPT ![r] = p] /\ user' = [user EXCEPT ![r] = u]
      /\ inst' = [inst EXCEPT ![r] = loaded] /\ ask' = ask /\ answer' = answer
  BY DEF Goto
<1>2. RequestStep(r)
  BY <1>1 DEF RequestStep, Inv, DomainInv
<1>3. /\ pc'[r] = p /\ user'[r] = u /\ inst'[r] = loaded /\ ask'[r] = ask[r]
      /\ answer'[r] = None
  BY <1>1 DEF Inv, DomainInv, Claims, ClaimInv
<1>4. ClaimInv(r)'
  BY <1>3 DEF ClaimInv, Leads
<1> QED BY <1>2, <1>4, ClaimsKept

LEMMA SignedInClaims ==
  ASSUME Inv, Claims, LinkStep, NEW r \in Requests, pc[r] \notin {"idle", "done"},
         ask[r].kind \in SignIns, NEW u, SignedIn(r, u),
         ask[r].kind = "wechat" => Leads(u, "union_id", ask[r].wechat)',
         ask[r].kind = "apple" => Leads(u, "apple_uid", ask[r].apple)'
  PROVE  Claims'
<1>1. CASE Goto(r, "bind", u, None)
  BY <1>1, GotoClaims DEF BindStates
<1>2. CASE ~Goto(r, "bind", u, None)
  <2>1. /\ pc' = [pc EXCEPT ![r] = "done"] /\ answer' = [answer EXCEPT ![r] = u]
        /\ user' = [user EXCEPT ![r] = u] /\ inst' = [inst EXCEPT ![r] = None] /\ ask' = ask
    BY <1>2 DEF SignedIn
  <2>2. RequestStep(r)
    BY <2>1 DEF RequestStep, Inv, DomainInv
  <2>3. pc'[r] = "done" /\ ask'[r] = ask[r] /\ answer'[r] = u /\ Claim(r)' = Claim(r)
    BY <2>1 DEF Inv, DomainInv, Claim
  <2>4. ask[r].kind \in ClaimKinds => Leads(u, Claim(r)[1], Claim(r)[2])'
    BY <2>3 DEF ClaimKinds, SignIns, Claim, Leads
  <2>5. ClaimInv(r)'
    BY <2>3, <2>4 DEF ClaimInv, BindStates, Leads
  <2> QED BY <2>2, <2>5, ClaimsKept
<1> QED BY <1>1, <1>2

\* A binding that ends well has its WeChat id; one that ends a sign-in by Apple id answers
\* with the user of that id.
LEMMA BindDoneClaims ==
  ASSUME Inv, Claims, LinkStep, NEW r \in Requests, pc[r] \in BindStates,
         NEW ok \in BOOLEAN, BindDone(r, ok),
         ok /\ ask[r].kind = "bind" => Leads(user[r], "union_id", ask[r].wechat)'
  PROVE  Claims'
<1>1. AskInv(ask[r]) /\ ask[r].kind \in {"code", "signup", "password", "apple", "bind"}
  BY KindOf DEF Inv, HandlerInv, AskInv, BindStates
<1>2. CASE ask[r].kind = "bind"
  <2>1. Reply(r, IF ok THEN user[r] ELSE None)
    BY <1>2 DEF BindDone
  <2>2. ok => Leads(user[r], Claim(r)[1], Claim(r)[2])'
    <3>1. Claim(r) = <<"union_id", ask[r].wechat>> /\ Claim(r)' = Claim(r)
      BY <1>2, <2>1 DEF Claim, Reply
    <3>2. ok => Leads(user[r], "union_id", ask[r].wechat)'
      BY <1>2
    <3>3. user' = user /\ ask' = ask
      BY <2>1 DEF Reply
    <3> QED BY <3>1, <3>2, <3>3
  <2>3. CASE ok
    <3>1. Reply(r, user[r]) /\ user' = user
      BY <2>1, <2>3 DEF Reply
    <3> QED BY <2>2, <2>3, <3>1, ReplyClaims DEF Leads
  <2>4. CASE ~ok
    BY <2>1, <2>4, ReplyClaims
  <2> QED BY <2>3, <2>4
<1>3. CASE ask[r].kind = "apple"
  <2>1. Reply(r, user[r])
    BY <1>3 DEF BindDone
  <2>2. Leads(user[r], "apple_uid", ask[r].apple)
    BY <1>3 DEF Claims, ClaimInv
  <2>3. ask[r].apple \in Apples
    BY <1>1, <1>3 DEF AskInv
  <2>4. Claim(r) = <<"apple_uid", ask[r].apple>> /\ Claim(r)' = Claim(r)
        /\ user' = user /\ ask' = ask
    BY <1>3, <2>1 DEF Claim, Reply
  <2>5. Leads(user[r], "apple_uid", ask[r].apple)'
    BY <2>2, <2>3, <2>4 DEF LinkStep, LinkCols
  <2>6. Leads(user[r], Claim(r)[1], Claim(r)[2])'
    BY <2>4, <2>5
  <2> QED BY <2>1, <2>4, <2>6, ReplyClaims DEF Leads
<1>4. CASE ask[r].kind \notin ClaimKinds
  BY <1>4, ReplyClaims DEF BindDone
<1> QED BY <1>1, <1>2, <1>3, <1>4 DEF ClaimKinds

\* The columns with links that are written: an Apple id that is not in the row yet, a WeChat
\* id in a row loaded without one, the ids a sign-up is about.
LEMMA AppleWritten ==
  ASSUME NEW row, DOMAIN row = Cols, NEW a,
         NEW kv, kv = StaledKV([Loaded(row) EXCEPT !.now.apple_uid = a], {"apple_uid"})
  PROVE  row.apple_uid # a => "apple_uid" \in DOMAIN kv /\ kv.apple_uid = a
<1> DEFINE o == [Loaded(row) EXCEPT !.now.apple_uid = a]
<1>1. o.orig = row /\ o.now = [row EXCEPT !.apple_uid = a]
  BY DEF Loaded
<1>2. kv = [c \in {k \in DOMAIN o.now : k \in {"apple_uid"} /\ o.now[k] # o.orig[k]} |-> o.now[c]]
  BY DEF StaledKV
<1> HIDE DEF o
<1> QED BY <1>1, <1>2 DEF Cols

LEMMA BindWritten ==
  ASSUME NEW row, DOMAIN row = Cols, row.union_id = Null, NEW w \in Unions,
         NEW kv, kv = StaledKV(Filled(Loaded(row), w), {"union_id", "realname", "avatar"})
  PROVE  "union_id" \in DOMAIN kv /\ kv.union_id = w
<1> DEFINE o == Filled(Loaded(row), w)
           only == {"union_id", "realname", "avatar"}
<1>1. /\ DOMAIN o.now = DOMAIN row /\ o.now["union_id"] = w
      /\ o.orig = row
  BY DEF Filled, Loaded, Cols
<1>2. kv = [c \in {k \in DOMAIN o.now : k \in only /\ o.now[k] # o.orig[k]} |-> o.now[c]]
  BY DEF StaledKV
<1>3. w # Null
  BY Ids
<1> HIDE DEF o
<1> QED BY <1>1, <1>2, <1>3 DEF Cols

LEMMA NewUserLinks ==
  ASSUME NEW a, AskInv(a), a.kind \in {"wechat", "apple"},
         NEW kv, kv = StaledKV(NewUser(a), Cols)
  PROVE  /\ a.kind = "wechat" => "union_id" \in DOMAIN kv /\ kv.union_id = a.wechat
         /\ a.kind = "apple" => "apple_uid" \in DOMAIN kv /\ kv.apple_uid = a.apple
<1> DEFINE plain == [Blanks EXCEPT !.status = "active"]
<1>1. DOMAIN Blanks = Cols /\ DOMAIN plain = Cols
  BY DEF Blanks
<1>2. \A p, allows : DOMAIN p = Cols =>
        /\ DOMAIN ToN(p, allows).now = Cols
        /\ \A c \in Cols : /\ ToN(p, allows).now[c] = (IF c \in allows THEN p[c] ELSE Null)
                           /\ ToN(p, allows).orig[c] = Null
  BY DEF ToN, Object, Original
<1>3. CASE a.kind = "wechat"
  <2> DEFINE p == [plain EXCEPT !.union_id = a.wechat, !.realname = "nickname",
                                  !.avatar = "nickname"]
             o == ToN(p, {"union_id", "avatar", "realname", "status"})
  <2>2. NewUser(a) = o
    BY <1>3 DEF NewUser
  <2>3. DOMAIN p = Cols /\ p["union_id"] = a.wechat /\ "union_id" \in Cols
    BY <1>1 DEF Cols
  <2>4. a.wechat # Null
    BY <1>3, Ids DEF AskInv
  <2> HIDE DEF p
  <2>5. DOMAIN o.now = Cols /\ o.now["union_id"] = a.wechat /\ o.orig["union_id"] = Null
    BY <1>2, <2>3
  <2> HIDE DEF o
  <2> QED BY <1>3, <2>2, <2>3, <2>4, <2>5 DEF StaledKV
<1>4. CASE a.kind = "apple"
  <2> DEFINE p == [plain EXCEPT !.apple_uid = a.apple, !.email = a.name]
             o == ToN(p, {"apple_uid", "email", "realname", "status"})
  <2>2. NewUser(a) = o
    BY <1>4 DEF NewUser
  <2>3. DOMAIN p = Cols /\ p["apple_uid"] = a.apple /\ "apple_uid" \in Cols
    BY <1>1 DEF Cols
  <2>4. a.apple # Null
    BY <1>4, Ids DEF AskInv
  <2> HIDE DEF p
  <2>5. DOMAIN o.now = Cols /\ o.now["apple_uid"] = a.apple /\ o.orig["apple_uid"] = Null
    BY <1>2, <2>3
  <2> HIDE DEF o
  <2> QED BY <1>4, <2>2, <2>3, <2>4, <2>5 DEF StaledKV
<1> QED BY <1>3, <1>4

LEMMA ReceiveClaims == ASSUME Inv, Claims, NEW r \in Requests, Receive(r) PROVE Claims'
<1>1. PICK k \in Kinds : \E a \in Asked(k) :
        /\ pc' = [pc EXCEPT ![r] = FirstState[k]] /\ ask' = [ask EXCEPT ![r] = a]
        /\ user' = [user EXCEPT ![r] = a.from]
  BY DEF Receive
<1>2. PICK a \in Asked(k) :
        /\ pc' = [pc EXCEPT ![r] = FirstState[k]] /\ ask' = [ask EXCEPT ![r] = a]
        /\ user' = [user EXCEPT ![r] = a.from]
  BY <1>1
<1>3. UNCHANGED <<users, inst, answer, overwrites, unsaved>> /\ pc[r] = "idle"
  BY DEF Receive
<1>4. k \in AllKinds /\ a.kind = k
  BY IdentityConstants, AskedRight DEF IdentityConstants
<1>5. /\ FirstState[k] \in Path[k] \ {"done", "idle", "applesave"}
      /\ FirstState[k] \notin {"bindcheck", "bindsave"}
      /\ FirstState[k] \in BindStates => k = "bind"
  BY <1>4, FirstIsOnPath, KindOf DEF HasUser, BindStates
<1>6. LinkStep
  BY <1>3, LinksSame
<1>7. RequestStep(r)
  BY <1>2, <1>3 DEF RequestStep, Inv, DomainInv
<1>8. /\ pc'[r] = FirstState[k] /\ ask'[r] = a /\ answer'[r] = None
  BY <1>2, <1>3 DEF Inv, DomainInv, Claims, ClaimInv
<1>9. ClaimInv(r)'
  BY <1>4, <1>5, <1>8 DEF ClaimInv
<1> QED BY <1>6, <1>7, <1>9, ClaimsKept

LEMMA LookUpsClaim == ASSUME Inv, Claims, NEW r \in Requests, LookUps(r) PROVE Claims'
<1>1. ASSUME CheckPhoneExistence(r) \/ TrySignInWithWechat(r) \/ FindByName(r)
             \/ SignInWithPassword(r) \/ SignUpCount(r)
      PROVE  LinkStep /\ users' = users
  BY <1>1, LinksSame DEF CheckPhoneExistence, TrySignInWithWechat, FindByName,
                        SignInWithPassword, SignUpCount, Reads
<1>2. pc[r] \notin {"idle", "done"} /\ AskInv(ask[r]) /\ ask[r].kind \in AllKinds
  BY Known DEF LookUps, CheckPhoneExistence, TrySignInWithWechat, FindByName,
               SignInWithPassword, SignUpCount, SignUpInsert
<1>3. CASE CheckPhoneExistence(r)
  <2>1. pc[r] = "check" /\ \E u : Reply(r, u)
    BY <1>3 DEF CheckPhoneExistence, Refuse
  <2>2. ask[r].kind = "check"
    BY <2>1, Known, KindOf
  <2> QED BY <1>1, <1>3, <2>1, <2>2, ReplyClaims DEF ClaimKinds
<1>4. CASE TrySignInWithWechat(r)
  <2>1. pc[r] = "try" /\ (Refuse(r) \/ \E u \in Having(users, "union_id", ask[r].wechat) : Reply(r, u))
    BY <1>4 DEF TrySignInWithWechat
  <2>2. ask[r].kind = "try"
    BY <2>1, Known, KindOf
  <2>3. ASSUME NEW u \in Having(users, "union_id", ask[r].wechat), Reply(r, u) PROVE Claims'
    <3>1. u \in DOMAIN users' /\ users'[u].union_id = ask[r].wechat
      BY <1>1, <1>4 DEF Having
    <3>2. Claim(r) = <<"union_id", ask[r].wechat>> /\ ask' = ask
      BY <2>2, <2>3 DEF Claim, Reply
    <3>3. Claim(r)' = Claim(r)
      BY <3>2 DEF Claim
    <3>4. Leads(u, Claim(r)[1], Claim(r)[2])'
      BY <3>1, <3>2, <3>3 DEF Leads
    <3> QED BY <1>1, <1>4, <2>3, <3>4, ReplyClaims
  <2> QED BY <1>1, <1>4, <2>1, <2>3, RefuseClaims
<1>5. CASE FindByName(r)
  <2>1. pc[r] = "find"
    BY <1>5 DEF FindByName
  <2>2. ask[r].kind \in {"code", "reset"}
    BY <2>1, Known, KindOf
  <2>3. \/ Goto(r, "count", None, None) \/ Refuse(r)
        \/ \E u : Goto(r, "setpassword", u, None)
        \/ ask[r].kind = "code" /\ \E u : SignedIn(r, u)
    BY <1>5 DEF FindByName
  <2>4. Goto(r, "count", None, None) => Claims'
    BY <1>1, <1>2, <1>5, GotoClaims DEF BindStates
  <2>5. (\E u : Goto(r, "setpassword", u, None)) => Claims'
    BY <1>1, <1>2, <1>5, GotoClaims DEF BindStates
  <2>6. ask[r].kind = "code" /\ (\E u : SignedIn(r, u)) => Claims'
    BY <1>1, <1>2, <1>5, SignedInClaims DEF SignIns
  <2> QED BY <1>1, <1>5, <2>3, <2>4, <2>5, <2>6, RefuseClaims
<1>6. CASE SignInWithPassword(r)
  <2>1. pc[r] = "signin" /\ (Refuse(r) \/ \E u : SignedIn(r, u))
    BY <1>6 DEF SignInWithPassword
  <2>2. ask[r].kind = "password"
    BY <2>1, Known, KindOf
  <2>3. (\E u : SignedIn(r, u)) => Claims'
    BY <1>1, <1>2, <1>6, <2>2, SignedInClaims DEF SignIns
  <2> QED BY <1>1, <1>6, <2>1, <2>3, RefuseClaims
<1>7. CASE SignUpCount(r)
  <2>1. Goto(r, "insert", None, None) \/ Refuse(r)
    BY <1>7 DEF SignUpCount
  <2>2. Goto(r, "insert", None, None) => Claims'
    BY <1>1, <1>2, <1>7, GotoClaims DEF BindStates
  <2> QED BY <1>1, <1>7, <2>1, <2>2, RefuseClaims
<1>8. CASE SignUpInsert(r)
  <2>1. pc[r] = "insert" /\ UNCHANGED <<overwrites, unsaved>>
    BY <1>8 DEF SignUpInsert, history
  <2>2. ask[r].kind \in {"code", "signup", "wechat", "apple"}
    BY <2>1, Known, KindOf
  <2> DEFINE kv == StaledKV(NewUser(ask[r]), Cols)
  <2>3. PICK u \in Users \ DOMAIN users :
          \/ /\ Unique(users, u, kv, UniqueCols)
             /\ users' = Create(users, u, Cols, kv) /\ SignedIn(r, u)
          \/ UNCHANGED users /\ Refuse(r)
    BY <1>8 DEF SignUpInsert
  <2>4. /\ ask[r].kind = "wechat" => "union_id" \in DOMAIN kv /\ kv.union_id = ask[r].wechat
        /\ ask[r].kind = "apple" => "apple_uid" \in DOMAIN kv /\ kv.apple_uid = ask[r].apple
    BY <1>2, NewUserLinks
  <2> HIDE DEF kv
  <2>5. CASE /\ Unique(users, u, kv, UniqueCols)
             /\ users' = Create(users, u, Cols, kv) /\ SignedIn(r, u)
    <3>1. /\ LinkStep /\ u \in DOMAIN users'
          /\ \A c \in LinkCols \cap DOMAIN kv : users'[u][c] = kv[c]
      BY <2>1, <2>5, LinksCreated
    <3>2. ask' = ask
      BY <2>5 DEF SignedIn, Goto
    <3>3. /\ ask[r].kind = "wechat" => Leads(u, "union_id", ask[r].wechat)'
          /\ ask[r].kind = "apple" => Leads(u, "apple_uid", ask[r].apple)'
      BY <2>4, <3>1, <3>2 DEF Leads, LinkCols
    <3> QED BY <1>2, <2>2, <2>5, <3>1, <3>2, <3>3, SignedInClaims DEF SignIns, Leads
  <2>6. CASE UNCHANGED users /\ Refuse(r)
    BY <2>1, <2>6, LinksSame, RefuseClaims
  <2> QED BY <2>3, <2>5, <2>6
<1> QED BY <1>3, <1>4, <1>5, <1>6, <1>7, <1>8 DEF LookUps

LEMMA AppleSavedClaims ==
  ASSUME Inv, Claims, LinkStep, NEW r \in Requests, pc[r] = "applesave", AppleSaved(r),
         Leads(user[r], "apple_uid", ask[r].apple)' \/ ask[r].apple \in unsaved',
         user' = user \/ user'[r] = user[r]
  PROVE  Claims'
<1>1. ask[r].kind = "apple"
  BY Known, KindOf
<1>2. CASE Refuse(r)
  BY <1>2, RefuseClaims
<1>3. CASE SignedIn(r, user[r])
  <2>1. ask' = ask
    BY <1>3 DEF SignedIn, Goto
  <2>2. Leads(user[r], "apple_uid", ask[r].apple)'
    BY <2>1 DEF Leads
  <2> QED BY <1>1, <1>3, <2>1, <2>2, SignedInClaims DEF SignIns, Leads
<1> QED BY <1>2, <1>3 DEF AppleSaved

LEMMA ExternalClaims == ASSUME Inv, Claims, NEW r \in Requests, External(r) PROVE Claims'
<1>1. pc[r] \notin {"idle", "done"} /\ AskInv(ask[r]) /\ ask[r].kind \in AllKinds
  BY Known DEF External, SignInWithWeChat, SignInWithApple, AppleSave
<1>2. CASE SignInWithWeChat(r)
  <2>1. pc[r] = "wechat" /\ LinkStep /\ users' = users
    BY <1>2, LinksSame DEF SignInWithWeChat, Reads
  <2>2. ask[r].kind = "wechat"
    BY <2>1, Known, KindOf
  <2>3. \/ Goto(r, "insert", None, None) \/ Refuse(r)
        \/ \E u \in Having(users, "union_id", ask[r].wechat) : SignedIn(r, u)
    BY <1>2 DEF SignInWithWeChat
  <2>4. Goto(r, "insert", None, None) => Claims'
    BY <1>1, <2>1, GotoClaims DEF BindStates
  <2>5. ASSUME NEW u \in Having(users, "union_id", ask[r].wechat), SignedIn(r, u) PROVE Claims'
    <3>1. u \in DOMAIN users' /\ users'[u].union_id = ask[r].wechat /\ ask' = ask
      BY <2>1, <2>5 DEF Having, SignedIn, Goto
    <3> QED BY <1>1, <2>1, <2>2, <2>5, <3>1, SignedInClaims DEF SignIns, Leads
  <2> QED BY <2>1, <2>3, <2>4, <2>5, RefuseClaims
<1>3. CASE SignInWithApple(r)
  <2>1. pc[r] = "apple" /\ LinkStep /\ users' = users
    BY <1>3, LinksSame DEF SignInWithApple, Reads
  <2>2. ask[r].kind = "apple"
    BY <2>1, Known, KindOf
  <2> DEFINE mine    == Having(users, "apple_uid", ask[r].apple)
             matched == mine \cup Having(users, "email", ask[r].name)
  <2>3. \/ Goto(r, "insert", None, None) \/ Refuse(r)
        \/ \E u \in matched : Goto(r, "applesave", u, Loaded(users[u]))
        \/ \E u \in mine : SignedIn(r, u)
    BY <1>3 DEF SignInWithApple
  <2>4. Goto(r, "insert", None, None) => Claims'
    BY <1>1, <2>1, GotoClaims DEF BindStates
  <2>5. ASSUME NEW u \in matched, Goto(r, "applesave", u, Loaded(users[u])) PROVE Claims'
    <3>1. Loaded(users[u]).now = users[u] /\ u \in DOMAIN users /\ ask' = ask
      BY <2>5 DEF Loaded, Having, Goto
    <3>2. Loaded(users[u]).now.apple_uid = ask[r].apple => Leads(u, "apple_uid", ask[r].apple)'
      BY <2>1, <3>1 DEF Leads
    <3> QED BY <1>1, <2>1, <2>5, <3>1, <3>2, GotoClaims DEF BindStates, Leads
  <2>6. ASSUME NEW u \in mine, SignedIn(r, u) PROVE Claims'
    <3>1. u \in DOMAIN users' /\ users'[u].apple_uid = ask[r].apple /\ ask' = ask
      BY <2>1, <2>6 DEF Having, SignedIn, Goto
    <3> QED BY <1>1, <2>1, <2>2, <2>6, <3>1, SignedInClaims DEF SignIns, Leads
  <2> QED BY <2>1, <2>3, <2>4, <2>5, <2>6, RefuseClaims
<1>4. CASE AppleSave(r)
  <2>1. pc[r] = "applesave" /\ AppleSaved(r)
    BY <1>4 DEF AppleSave
  <2>2. ask[r].apple \in Apples
    BY <1>1, <2>1, KindOf DEF AskInv, Inv, HandlerInv
  <2>3. inst[r] = Loaded(inst[r].now) /\ DOMAIN inst[r].now = Cols
    BY <2>1 DEF Inv, HandlerInv, HasRow
  <2>4. user[r] \in DOMAIN users
    BY <2>1 DEF Inv, HandlerInv, HasUser
  <2> DEFINE kv == StaledKV([inst[r] EXCEPT !.now.apple_uid = ask[r].apple], {"apple_uid"})
  <2>5. /\ DOMAIN kv \subseteq {"apple_uid"}
        /\ inst[r].now.apple_uid # ask[r].apple =>
             "apple_uid" \in DOMAIN kv /\ kv.apple_uid = ask[r].apple
    BY <2>3, AppleColumn, AppleWritten
  <2>6. \/ Unique(users, user[r], kv, UniqueCols) /\ Write(r, user[r], kv)
        \/ unsaved' = unsaved \cup {ask[r].apple} /\ UNCHANGED <<users, overwrites>>
    BY <1>4 DEF AppleSave
  <2> HIDE DEF kv
  <2>7. user'[r] = user[r] /\ ask' = ask
    BY <2>1 DEF AppleSaved, Refuse, Reply, SignedIn, Goto, Inv, DomainInv
  <2>8. CASE Unique(users, user[r], kv, UniqueCols) /\ Write(r, user[r], kv)
    <3>1. Write(r, user[r], kv)
      BY <2>8
    <3>2. \A c \in LinkCols \cap DOMAIN kv : Having(users, c, kv[c]) \subseteq {user[r]}
      BY <2>8 DEF Unique, LinkCols, UniqueCols
    <3>3. /\ LinkStep /\ user[r] \in DOMAIN users'
          /\ \A c \in LinkCols : users'[user[r]][c] =
                                   IF c \in DOMAIN kv THEN kv[c] ELSE users[user[r]][c]
      BY <2>4, <3>1, <3>2, LinksWritten
    <3>4. Leads(user[r], "apple_uid", ask[r].apple)'
      <4>1. CASE inst[r].now.apple_uid = ask[r].apple
        <5>1. Leads(user[r], "apple_uid", ask[r].apple)
          BY <2>1, <4>1 DEF Claims, ClaimInv
        <5> QED BY <2>2, <2>7, <3>3, <5>1 DEF LinkStep, LinkCols
      <4>2. CASE inst[r].now.apple_uid # ask[r].apple
        BY <2>5, <2>7, <3>3, <4>2 DEF Leads, LinkCols
      <4> QED BY <4>1, <4>2
    <3> QED BY <2>1, <2>7, <3>3, <3>4, AppleSavedClaims
  <2>9. CASE unsaved' = unsaved \cup {ask[r].apple} /\ UNCHANGED <<users, overwrites>>
    BY <2>1, <2>7, <2>9, LinksSame, AppleSavedClaims
  <2> QED BY <2>6, <2>8, <2>9
<1> QED BY <1>2, <1>3, <1>4 DEF External

LEMMA BindingClaims == ASSUME Inv, Claims, NEW r \in Requests, Binding(r) PROVE Claims'
<1>1. pc[r] \in BindStates
  BY DEF Binding, BindFirst, WeChatIsBond, BindSave, BindStates
<1>2. pc[r] # "done" /\ AskInv(ask[r])
  BY <1>1, Known DEF BindStates
<1>3. user[r] \in DOMAIN users /\ ask[r].wechat \in Unions
  BY <1>1 DEF Inv, HandlerInv, HasUser
<1>4. users[user[r]].union_id # Blank
  BY <1>3 DEF Inv, RowInv, BlankIsApples, UniqueCols
<1>5. ask[r].kind = "apple" => Leads(user[r], "apple_uid", ask[r].apple)
  BY <1>1 DEF Claims, ClaimInv
<1>6. LinkStep /\ ask[r].kind = "apple" /\ user'[r] = user[r] /\ ask' = ask
        => Leads(user[r], "apple_uid", ask[r].apple)'
  BY <1>2, <1>5 DEF LinkStep, LinkCols, AskInv
<1>7. CASE BindFirst(r)
  <2>1. LinkStep /\ users' = users
    BY <1>7, LinksSame DEF BindFirst, Reads
  <2>2. \/ users[user[r]].union_id = ask[r].wechat /\ BindDone(r, TRUE)
        \/ BindDone(r, FALSE)
        \/ users[user[r]].union_id = Null /\ Goto(r, "bindcheck", user[r], Loaded(users[user[r]]))
    BY <1>3, <1>4, <1>7, Ids DEF BindFirst, ValueOrZero
  <2>3. CASE users[user[r]].union_id = ask[r].wechat /\ BindDone(r, TRUE)
    <3>1. user' = user /\ ask' = ask
      BY <2>3 DEF BindDone, Reply
    <3>2. Leads(user[r], "union_id", ask[r].wechat)'
      BY <1>3, <2>1, <2>3, <3>1 DEF Leads
    <3> QED BY <1>1, <2>1, <2>3, <3>1, <3>2, BindDoneClaims DEF Leads
  <2>4. CASE BindDone(r, FALSE)
    BY <1>1, <2>1, <2>4, BindDoneClaims
  <2>5. CASE users[user[r]].union_id = Null /\ Goto(r, "bindcheck", user[r], Loaded(users[user[r]]))
    <3>1. user'[r] = user[r] /\ ask' = ask /\ Loaded(users[user[r]]).now.union_id = Null
      BY <2>5 DEF Goto, Loaded, Inv, DomainInv
    <3> QED BY <1>2, <1>6, <2>1, <2>5, <3>1, GotoClaims DEF Leads
  <2> QED BY <2>2, <2>3, <2>4, <2>5
<1>8. CASE WeChatIsBond(r)
  <2>1. LinkStep
    BY <1>8, LinksSame DEF WeChatIsBond, history
  <2>2. inst[r].now.union_id = Null
    BY <1>8 DEF WeChatIsBond, Claims, ClaimInv
  <2>3. Goto(r, "bindsave", user[r], inst[r]) \/ BindDone(r, FALSE)
    BY <1>8 DEF WeChatIsBond
  <2>4. CASE Goto(r, "bindsave", user[r], inst[r])
    <3>1. user'[r] = user[r] /\ ask' = ask
      BY <2>4 DEF Goto, Inv, DomainInv
    <3> QED BY <1>2, <1>6, <2>1, <2>2, <2>4, <3>1, GotoClaims DEF Leads
  <2>5. CASE BindDone(r, FALSE)
    BY <1>1, <2>1, <2>5, BindDoneClaims
  <2> QED BY <2>3, <2>4, <2>5
<1>9. CASE BindSave(r)
  <2> DEFINE kv == StaledKV(Filled(inst[r], ask[r].wechat), {"union_id", "realname", "avatar"})
  <2>1. inst[r] = Loaded(inst[r].now) /\ DOMAIN inst[r].now = Cols /\ inst[r].now.union_id = Null
    BY <1>9 DEF BindSave, Inv, HandlerInv, HasRow, Claims, ClaimInv
  <2>2. "union_id" \in DOMAIN kv /\ kv.union_id = ask[r].wechat
    BY <1>3, <2>1, BindWritten
  <2>3. \/ Unique(users, user[r], kv, UniqueCols) /\ Write(r, user[r], kv) /\ BindDone(r, TRUE)
        \/ UNCHANGED <<users, overwrites, unsaved>> /\ BindDone(r, FALSE)
    BY <1>9 DEF BindSave, history
  <2> HIDE DEF kv
  <2>4. CASE Unique(users, user[r], kv, UniqueCols) /\ Write(r, user[r], kv) /\ BindDone(r, TRUE)
    <3>1. \A c \in LinkCols \cap DOMAIN kv : Having(users, c, kv[c]) \subseteq {user[r]}
      BY <2>4 DEF Unique, LinkCols, UniqueCols
    <3>2. /\ LinkStep /\ user[r] \in DOMAIN users'
          /\ \A c \in LinkCols : users'[user[r]][c] =
                                   IF c \in DOMAIN kv THEN kv[c] ELSE users[user[r]][c]
      BY <1>3, <2>4, <3>1, LinksWritten
    <3>3. user' = user /\ ask' = ask
      BY <2>4 DEF BindDone, Reply
    <3>4. Leads(user[r], "union_id", ask[r].wechat)'
      BY <2>2, <3>2, <3>3 DEF Leads, LinkCols
    <3> QED BY <1>1, <2>4, <3>2, <3>3, <3>4, BindDoneClaims DEF Leads
  <2>5. CASE UNCHANGED <<users, overwrites, unsaved>> /\ BindDone(r, FALSE)
    BY <1>1, <2>5, LinksSame, BindDoneClaims
  <2> QED BY <2>3, <2>4, <2>5
<1> QED BY <1>7, <1>8, <1>9 DEF Binding

\* The requests that change a column without a link.
LEMMA UpdateClaims ==
  ASSUME Inv, Claims, NEW r \in Requests, user[r] \in DOMAIN users, ask[r].kind \notin ClaimKinds,
         NEW col \in Cols \ LinkCols, NEW v, Update(r, col, v)
  PROVE  Claims'
<1> DEFINE kv == StaledKV(Object(Cols, [c \in {col} |-> v]), Cols)
<1>1. Write(r, user[r], kv) /\ Reply(r, user[r])
  BY DEF Update
<1>2. DOMAIN kv \subseteq {col}
  BY DEF StaledKV, Object, Original
<1> HIDE DEF kv
<1>3. LinkStep
  BY <1>1, <1>2, LinksWritten
<1> QED BY <1>1, <1>3, ReplyClaims

LEMMA ChangesClaim == ASSUME Inv, Claims, NEW r \in Requests, Changes(r) PROVE Claims'
<1>1. pc[r] \in {"setpassword", "destroy", "profile", "self", "taken", "setphone"}
  BY DEF Changes, UpdatePassword, UpdateStatus, UpdateProfile, PhoneSelf, PhoneTaken, BindPhone
<1>2. user[r] \in DOMAIN users /\ ask[r].kind \notin ClaimKinds /\ pc[r] # "done"
  BY <1>1, Known, KindOf DEF Inv, HandlerInv, HasUser, ClaimKinds
<1>3. CASE UpdatePassword(r) \/ UpdateStatus(r) \/ UpdateProfile(r)
  <2>1. \E col \in {"password", "status", "realname", "avatar"} : \E v : Update(r, col, v)
    BY <1>3 DEF UpdatePassword, UpdateStatus, UpdateProfile
  <2> QED BY <1>2, <2>1, UpdateClaims DEF Cols, LinkCols
<1>4. CASE PhoneSelf(r)
  <2>1. LinkStep
    BY <1>4, LinksSame DEF PhoneSelf, Reads
  <2>2. Refuse(r) \/ Reply(r, user[r]) \/ Goto(r, "taken", user[r], None)
    BY <1>4 DEF PhoneSelf
  <2>3. Goto(r, "taken", user[r], None) => Claims'
    BY <1>2, <2>1, GotoClaims DEF BindStates
  <2> QED BY <1>2, <2>1, <2>2, <2>3, RefuseClaims, ReplyClaims
<1>5. CASE PhoneTaken(r)
  <2>1. LinkStep
    BY <1>5, LinksSame DEF PhoneTaken, history
  <2>2. Refuse(r) \/ Goto(r, "setphone", user[r], None)
    BY <1>5 DEF PhoneTaken
  <2>3. Goto(r, "setphone", user[r], None) => Claims'
    BY <1>2, <2>1, GotoClaims DEF BindStates
  <2> QED BY <2>1, <2>2, <2>3, RefuseClaims
<1>6. CASE BindPhone(r)
  <2>1. Update(r, "phone", ask[r].name) \/ (Refuse(r) /\ UNCHANGED <<users, overwrites, unsaved>>)
    BY <1>6 DEF BindPhone, history
  <2>2. Update(r, "phone", ask[r].name) => Claims'
    BY <1>2, UpdateClaims DEF Cols, LinkCols
  <2> QED BY <2>1, <2>2, LinksSame, RefuseClaims
<1> QED BY <1>3, <1>4, <1>5, <1>6 DEF Changes

LEMMA FailClaims == ASSUME Inv, Claims, NEW r \in Requests, Fail(r) PROVE Claims'
<1>1. LinkStep
  BY LinksSame DEF Fail
<1>2. CASE pc[r] = "applesave" /\ AppleSaved(r) /\ unsaved' = unsaved \cup {ask[r].apple}
  <2>1. user'[r] = user[r]
    BY <1>2 DEF AppleSaved, Refuse, Reply, SignedIn, Goto, Inv, DomainInv
  <2> QED BY <1>1, <1>2, <2>1, AppleSavedClaims
<1>3. CASE pc[r] \in BindStates /\ BindDone(r, FALSE)
  BY <1>1, <1>3, BindDoneClaims
<1>4. CASE Refuse(r)
  BY <1>1, <1>4, RefuseClaims
<1> QED BY <1>2, <1>3, <1>4 DEF Fail, BindStates

LEMMA NextClaims == Inv /\ Claims /\ [Next]_vars => Claims'
<1> SUFFICES ASSUME Inv, Claims, [Next]_vars PROVE Claims'
  OBVIOUS
<1>1. CASE UNCHANGED vars
  BY <1>1 DEF vars, request, history, Claims, UniqueInv, ClaimInv, Claim, Leads
<1>2. ASSUME NEW r \in Requests,
             Receive(r) \/ LookUps(r) \/ External(r) \/ Binding(r) \/ Changes(r) \/ Fail(r)
      PROVE  Claims'
  BY <1>2, ReceiveClaims, LookUpsClaim, ExternalClaims, BindingClaims, ChangesClaim, FailClaims
<1> QED BY <1>1, <1>2 DEF Next

-----------------------------------------------------------------------------
(* Types, column by column.                                                *)

Of(c) == CASE c = "email"     -> Emails \cup {Null, Blank}
           [] c = "phone"     -> Phones \cup {Null}
           [] c = "password"  -> {Null, Blank, "hash"}
           [] c = "union_id"  -> Unions \cup {Null}
           [] c = "apple_uid" -> Apples \cup {Null}
           [] c = "status"    -> {"active", "deleted"}
           [] OTHER           -> Texts

TableTyped ==
  /\ IsTable(users)
  /\ faults \in 0..MaxFaults
  /\ dead \in [Requests -> SUBSET Users]
  /\ since \in [Requests -> SUBSET Cols]
  /\ overwrites \subseteq Overwrite
  /\ unsaved \subseteq Apples

HandlersTyped ==
  /\ pc \in [Requests -> States]
  /\ ask \in [Requests -> Ask \cup {None}]
  /\ user \in [Requests -> Users \cup {None}]
  /\ answer \in [Requests -> Users \cup {None}]
  /\ \A r \in Requests : inst[r] # None => inst[r].now \in Row /\ inst[r].orig \in Row
  /\ \A r \in Requests : pc[r] \in HasRow => inst[r].now \in Row

Types == TableTyped /\ HandlersTyped

LEMMA RowIsColumns ==
  ASSUME NEW f, f = [c \in Cols |-> f[c]] PROVE f \in Row <=> \A c \in Cols : f[c] \in Of(c)
<1>1. /\ Of("email") = Emails \cup {Null, Blank} /\ Of("phone") = Phones \cup {Null}
      /\ Of("password") = {Null, Blank, "hash"} /\ Of("union_id") = Unions \cup {Null}
      /\ Of("apple_uid") = Apples \cup {Null} /\ Of("status") = {"active", "deleted"}
      /\ Of("realname") = Texts /\ Of("avatar") = Texts
  BY DEF Of
<1>2. Cols = {"email", "phone", "password", "realname", "union_id", "avatar", "apple_uid", "status"}
  BY DEF Cols
<1>3. DOMAIN f = Cols
  OBVIOUS
<1>4. ASSUME f \in Row PROVE \A c \in Cols : f[c] \in Of(c)
  BY <1>1, <1>2, <1>4 DEF Row
<1>5. ASSUME \A c \in Cols : f[c] \in Of(c) PROVE f \in Row
  <2>1. /\ f.email \in Emails \cup {Null, Blank} /\ f.phone \in Phones \cup {Null}
        /\ f.password \in {Null, Blank, "hash"} /\ f.realname \in Texts
        /\ f.union_id \in Unions \cup {Null} /\ f.avatar \in Texts
        /\ f.apple_uid \in Apples \cup {Null} /\ f.status \in {"active", "deleted"}
    BY <1>1, <1>2, <1>5
  <2>2. f = [email |-> f.email, phone |-> f.phone, password |-> f.password,
             realname |-> f.realname, union_id |-> f.union_id, avatar |-> f.avatar,
             apple_uid |-> f.apple_uid, status |-> f.status]
    BY <1>2
  <2> QED BY <2>1, <2>2 DEF Row
<1> QED BY <1>4, <1>5

LEMMA RowOf == ASSUME NEW row \in Row PROVE row = [c \in Cols |-> row[c]]
BY DEF Row, Cols

LEMMA OldOf == ASSUME NEW c \in Cols, NEW v \in Of(c)
               PROVE v \in Texts \cup {"hash"} \cup Phones \cup Emails \cup Unions \cup Apples
                           \cup {"active", "deleted"}
BY DEF Of, Texts, Cols

\* Where the parameters come from.
LEMMA AskedTyped ==
  ASSUME Inv, NEW k \in Kinds, NEW a \in Asked(k) PROVE a \in Ask /\ a.from \in Users \cup {None}
<1>1. k \in AllKinds /\ DOMAIN users \subseteq Users
  BY IdentityConstants DEF IdentityConstants, Inv, RowInv
<1>2. \A names, unions, apples, from :
        /\ names \subseteq Phones \cup Emails \cup {Blank, None} /\ unions \subseteq Unions \cup {None}
        /\ apples \subseteq Apples \cup {None} /\ from \subseteq Users \cup {None}
        => Shape(k, names, unions, apples, from) \subseteq Ask
  BY <1>1 DEF Shape, Ask
<1>3. \E names, unions, apples, from :
        /\ names \subseteq Phones \cup Emails \cup {Blank, None} /\ unions \subseteq Unions \cup {None}
        /\ apples \subseteq Apples \cup {None} /\ from \subseteq Users \cup {None}
        /\ Asked(k) = Shape(k, names, unions, apples, from)
  <2>1. CASE k \in {"code", "signup", "password"}
    BY <2>1 DEF Asked
  <2>2. CASE k \in {"wechat", "try"}
    BY <2>2 DEF Asked
  <2>3. CASE k = "apple"
    BY <2>3 DEF Asked
  <2>4. CASE k = "bind"
    BY <1>1, <2>4 DEF Asked
  <2>5. CASE k \in {"reset", "check"}
    BY <2>5 DEF Asked
  <2>6. CASE k = "phone"
    BY <1>1, <2>6 DEF Asked
  <2>7. CASE k \in {"newpassword", "destroy", "profile"}
    BY <1>1, <2>7 DEF Asked
  <2> QED BY <1>1, <2>1, <2>2, <2>3, <2>4, <2>5, <2>6, <2>7 DEF AllKinds, SignIns, LookOnly
<1>4. a \in Ask
  BY <1>2, <1>3
<1> QED BY <1>4 DEF Ask

LEMMA InitTypes == Init => Types
<1> SUFFICES ASSUME Init PROVE Types
  OBVIOUS
<1>1. TableTyped
  BY IdentityConstants DEF IdentityConstants, Init, TableTyped
<1>2. HandlersTyped
  BY DEF Init, HandlersTyped, States, HasRow
<1> QED BY <1>1, <1>2 DEF Types

\* A handler goes on.
LEMMA ReplyTyped ==
  ASSUME Inv, Types, NEW r \in Requests, NEW u \in Users \cup {None}, Reply(r, u)
  PROVE  HandlersTyped'
<1>1. /\ pc' = [pc EXCEPT ![r] = "done"] /\ answer' = [answer EXCEPT ![r] = u]
      /\ inst' = [inst EXCEPT ![r] = None] /\ ask' = ask /\ user' = user
  BY DEF Reply
<1>2. DOMAIN inst = Requests
  BY DEF Inv, DomainInv
<1> QED BY <1>1, <1>2 DEF Types, HandlersTyped, States, HasRow

LEMMA RefuseTyped ==
  ASSUME Inv, Types, NEW r \in Requests, Refuse(r) PROVE HandlersTyped'
BY ReplyTyped DEF Refuse

LEMMA GotoTyped ==
  ASSUME Inv, Types, NEW r \in Requests, NEW p \in States, NEW u \in Users \cup {None}, NEW loaded,
         Goto(r, p, u, loaded), loaded # None => loaded.now \in Row /\ loaded.orig \in Row,
         p \in HasRow => loaded.now \in Row
  PROVE  HandlersTyped'
<1>1. /\ pc' = [pc EXCEPT ![r] = p] /\ user' = [user EXCEPT ![r] = u]
      /\ inst' = [inst EXCEPT ![r] = loaded] /\ ask' = ask /\ answer' = answer
  BY DEF Goto
<1>2. DOMAIN inst = Requests
  BY DEF Inv, DomainInv
<1> QED BY <1>1, <1>2 DEF Types, HandlersTyped

LEMMA SignedInTyped ==
  ASSUME Inv, Types, NEW r \in Requests, NEW u \in Users, SignedIn(r, u) PROVE HandlersTyped'
<1>1. CASE Goto(r, "bind", u, None)
  BY <1>1, GotoTyped DEF States, HasRow
<1>2. CASE /\ pc' = [pc EXCEPT ![r] = "done"] /\ user' = [user EXCEPT ![r] = u]
           /\ answer' = [answer EXCEPT ![r] = u] /\ inst' = [inst EXCEPT ![r] = None]
           /\ UNCHANGED ask
  <2>1. DOMAIN inst = Requests
    BY DEF Inv, DomainInv
  <2> QED BY <1>2, <2>1 DEF Types, HandlersTyped, States, HasRow
<1> QED BY <1>1, <1>2 DEF SignedIn

LEMMA BindDoneTyped ==
  ASSUME Inv, Types, NEW r \in Requests, NEW ok, BindDone(r, ok) PROVE HandlersTyped'
<1>1. user[r] \in Users \cup {None}
  BY DEF Types, HandlersTyped
<1> QED BY <1>1, ReplyTyped DEF BindDone

\* A row as a request loads it.
LEMMA LoadedTyped ==
  ASSUME Types, NEW u \in DOMAIN users
  PROVE  Loaded(users[u]).now \in Row /\ Loaded(users[u]).orig \in Row
BY DEF Types, TableTyped, IsTable, Loaded

\* The table, when nothing of it is written, ...
LEMMA ReadTyped == ASSUME Types, NEW r \in Requests, Reads(r) PROVE TableTyped'
BY DEF Types, TableTyped, Reads

LEMMA SameTyped == ASSUME Types, UNCHANGED <<users, faults, history>> PROVE TableTyped'
BY DEF Types, TableTyped, history

\* ... and when columns of a row are.
LEMMA WriteTyped ==
  ASSUME Inv, Types, NEW r \in Requests, pc[r] # "idle", NEW u \in DOMAIN users, NEW kv,
         Write(r, u, kv), DOMAIN kv \subseteq Cols, \A c \in DOMAIN kv : kv[c] \in Of(c)
  PROVE  TableTyped'
<1> DEFINE changed == {c \in DOMAIN kv : kv[c] # users[u][c]}
           noted == {c \in changed : c \in since[r] \/ (c \in LinkCols /\ users[u][c] # Null)}
           note(c) == [col |-> c, old |-> users[u][c], kind |-> ask[r].kind,
                       raced |-> c \in since[r],
                       mail |-> ask[r].name # None /\ ask[r].name = users[u].email]
<1>1. /\ users' = UpdateFields(users, u, kv) /\ dead' = dead /\ faults' = faults
      /\ since' = [s \in Requests |-> IF s # r /\ user[s] = u /\ pc[s] # "done"
                                        THEN since[s] \cup changed ELSE since[s]]
      /\ overwrites' = overwrites \cup {note(c) : c \in noted} /\ unsaved' = unsaved
  BY DEF Write
<1>2. IsTable(users) /\ since \in [Requests -> SUBSET Cols] /\ overwrites \subseteq Overwrite
  BY DEF Types, TableTyped
<1>3. users[u] \in Row /\ users[u] = [c \in Cols |-> users[u][c]] /\ DOMAIN users[u] = Cols
  BY <1>2, RowOf DEF IsTable
<1>4. \A c \in Cols : users[u][c] \in Of(c)
  BY <1>3, RowIsColumns
<1>5. changed \subseteq Cols /\ noted \subseteq Cols
  OBVIOUS
<1>6. ask[r].kind \in AllKinds
  BY Known
<1>7. ASSUME NEW c \in noted PROVE note(c) \in Overwrite
  <2>1. c \in Cols /\ users[u][c] \in Of(c)
    BY <1>4, <1>5, <1>7
  <2>2. users[u][c] \in Texts \cup {"hash"} \cup Phones \cup Emails \cup Unions \cup Apples
                              \cup {"active", "deleted"}
    BY <2>1, OldOf
  <2> QED BY <1>6, <2>1, <2>2 DEF Overwrite
<1>8. overwrites' \subseteq Overwrite
  BY <1>1, <1>2, <1>7
<1> HIDE DEF changed, noted, note
<1>9. since' \in [Requests -> SUBSET Cols]
  BY <1>1, <1>2, <1>5
<1>10. IsTable(users')
  <2>1. /\ DOMAIN users' = DOMAIN users /\ \A i \in DOMAIN users \ {u} : users'[i] = users[i]
        /\ users'[u] = [c \in Cols |-> IF c \in DOMAIN kv THEN kv[c] ELSE users[u][c]]
        /\ users' = [i \in DOMAIN users' |-> users'[i]]
    BY <1>1, <1>3 DEF UpdateFields
  <2>2. /\ users'[u] = [c \in Cols |-> users'[u][c]]
        /\ \A c \in Cols : users'[u][c] \in Of(c)
    BY <1>4, <2>1
  <2>3. users'[u] \in Row
    BY <2>2, RowIsColumns
  <2>4. \A i \in DOMAIN users' : users'[i] \in Row
    BY <1>2, <2>1, <2>3 DEF IsTable
  <2> QED BY <1>2, <2>1, <2>4 DEF IsTable
<1> QED BY <1>1, <1>8, <1>9, <1>10 DEF Types, TableTyped

\* What ToN makes of a plain struct, and the row of a new user.
LEMMA ToNTyped ==
  ASSUME NEW p, NEW allows, DOMAIN p = Cols,
         \A c \in Cols : (IF c \in allows THEN p[c] ELSE Null) \in Of(c)
  PROVE  ToN(p, allows).now \in Row /\ ToN(p, allows).orig = Original(Cols)
<1> DEFINE now == ToN(p, allows).now
<1>1. /\ now = [c \in Cols |-> now[c]] /\ ToN(p, allows).orig = Original(Cols)
      /\ \A c \in Cols : now[c] = (IF c \in allows THEN p[c] ELSE Null)
  BY DEF ToN, Object
<1>2. \A c \in Cols : now[c] \in Of(c)
  BY <1>1
<1> HIDE DEF now
<1>3. now \in Row
  BY <1>1, <1>2, RowIsColumns
<1> QED BY <1>1, <1>3 DEF now

LEMMA NewUserTyped ==
  ASSUME NEW a, AskInv(a), a.kind \in {"code", "signup", "wechat", "apple"}
  PROVE  /\ NewUser(a).now \in Row
         /\ NewUser(a).orig = Original(Cols)
<1> DEFINE plain == [Blanks EXCEPT !.status = "active"]
<1>1. /\ DOMAIN plain = Cols /\ plain.status = "active"
      /\ \A c \in Cols \ {"status"} : plain[c] = Blank
  BY DEF Blanks, Cols
<1>2. /\ Null \in Of("email") /\ Null \in Of("phone") /\ Null \in Of("password")
      /\ Null \in Of("union_id") /\ Null \in Of("apple_uid") /\ Null \in Of("realname")
      /\ Null \in Of("avatar") /\ Blank \in Of("realname") /\ "nickname" \in Of("realname")
      /\ "nickname" \in Of("avatar") /\ Blank \in Of("password") /\ "hash" \in Of("password")
      /\ "active" \in Of("status")
  BY DEF Of, Texts
<1>3. Of("email") = Emails \cup {Null, Blank} /\ Of("phone") = Phones \cup {Null}
      /\ Of("union_id") = Unions \cup {Null} /\ Of("apple_uid") = Apples \cup {Null}
  BY DEF Of
<1> HIDE DEF plain
<1>4. CASE a.kind = "wechat"
  <2> DEFINE p == [plain EXCEPT !.union_id = a.wechat, !.realname = "nickname",
                                  !.avatar = "nickname"]
             allows == {"union_id", "avatar", "realname", "status"}
  <2>1. NewUser(a) = ToN(p, allows)
    BY <1>4 DEF NewUser, plain
  <2>2. /\ DOMAIN p = Cols /\ p.union_id \in Of("union_id") /\ p.realname = "nickname"
        /\ p.avatar = "nickname" /\ p.status = "active"
    BY <1>1, <1>3, <1>4 DEF Cols, AskInv
  <2> HIDE DEF p
  <2>3. \A c \in Cols : (IF c \in allows THEN p[c] ELSE Null) \in Of(c)
    BY <1>2, <2>2 DEF Cols
  <2> QED BY <2>1, <2>2, <2>3, ToNTyped
<1>5. CASE a.kind = "apple"
  <2> DEFINE p == [plain EXCEPT !.apple_uid = a.apple, !.email = a.name]
             allows == {"apple_uid", "email", "realname", "status"}
  <2>1. NewUser(a) = ToN(p, allows)
    BY <1>5 DEF NewUser, plain
  <2>2. /\ DOMAIN p = Cols /\ p.apple_uid \in Of("apple_uid") /\ p.email \in Of("email")
        /\ p.realname = Blank /\ p.status = "active"
    BY <1>1, <1>3, <1>5 DEF Cols, AskInv
  <2> HIDE DEF p
  <2>3. \A c \in Cols : (IF c \in allows THEN p[c] ELSE Null) \in Of(c)
    BY <1>2, <2>2 DEF Cols
  <2> QED BY <2>1, <2>2, <2>3, ToNTyped
<1>6. CASE a.kind \in {"code", "signup"}
  <2> DEFINE n == NameCol(a.name)
             p == [[plain EXCEPT !.password = IF a.kind = "signup" THEN "hash" ELSE Blank]
                      EXCEPT ![n] = a.name]
             allows == {n, "password", "realname", "status"}
  <2>1. NewUser(a) = ToN(p, allows)
    BY <1>6 DEF NewUser, plain
  <2>2. n \in {"phone", "email"} /\ a.name \in Of(n)
    BY <1>3, <1>6 DEF NameCol, AskInv
  <2>3. /\ DOMAIN p = Cols /\ p[n] = a.name /\ p.password \in {"hash", Blank}
        /\ p.realname = Blank /\ p.status = "active"
    BY <1>1, <2>2 DEF Cols
  <2> HIDE DEF n, p
  <2>4. \A c \in Cols : (IF c \in allows THEN p[c] ELSE Null) \in Of(c)
    BY <1>2, <2>2, <2>3 DEF Cols
  <2> QED BY <2>1, <2>3, <2>4, ToNTyped
<1> QED BY <1>4, <1>5, <1>6

\* What is written of an object, and NULL for the rest, is the object.
LEMMA CreateTyped ==
  ASSUME Types, NEW u \in Users, NEW o, o.now \in Row, o.orig = Original(Cols),
         users' = Create(users, u, Cols, StaledKV(o, Cols)), UNCHANGED <<faults, history>>
  PROVE  TableTyped'
<1> DEFINE kv == StaledKV(o, Cols)
<1>1. o.now = [c \in Cols |-> o.now[c]]
  BY RowOf
<1>2. DOMAIN o.now = Cols
  BY <1>1
<1>3. kv = [c \in {k \in Cols : o.now[k] # Null} |-> o.now[c]]
  BY <1>2 DEF StaledKV, Original
<1>4. Object(Cols, kv).now = o.now
  BY <1>1, <1>3 DEF Object
<1>5. users' = [i \in DOMAIN users \cup {u} |-> IF i = u THEN o.now ELSE users[i]]
  BY <1>4 DEF Create
<1> QED BY <1>5 DEF Types, TableTyped, IsTable, history

LEMMA ReceiveTyped == ASSUME Inv, Types, NEW r \in Requests, Receive(r) PROVE Types'
<1> DEFINE Takes(k, a) == /\ pc' = [pc EXCEPT ![r] = FirstState[k]]
                          /\ ask' = [ask EXCEPT ![r] = a] /\ user' = [user EXCEPT ![r] = a.from]
<1>k. PICK k \in Kinds : \E a \in Asked(k) : Takes(k, a)
  BY DEF Receive
<1>1. PICK a \in Asked(k) : Takes(k, a)
  BY <1>k
<1>2. /\ users' = users /\ inst' = inst /\ answer' = answer /\ since' = since /\ faults' = faults
      /\ overwrites' = overwrites /\ unsaved' = unsaved /\ dead' = [dead EXCEPT ![r] = Destroyed]
  BY DEF Receive
<1>3. a \in Ask /\ a.from \in Users \cup {None}
  BY AskedTyped
<1>4. FirstState[k] \in States /\ FirstState[k] \notin HasRow
  BY IdentityConstants
     DEF IdentityConstants, FirstState, States, HasRow, AllKinds, SignIns, LookOnly
<1>5. Destroyed \subseteq Users
  BY DEF Destroyed, Inv, RowInv
<1>6. TableTyped'
  BY <1>2, <1>5 DEF Types, TableTyped
<1>7. HandlersTyped'
  BY <1>1, <1>2, <1>3, <1>4 DEF Types, HandlersTyped
<1> QED BY <1>6, <1>7 DEF Types

LEMMA LookUpsTyped == ASSUME Inv, Types, NEW r \in Requests, LookUps(r) PROVE Types'
<1>1. /\ \A n : ByName(n) \subseteq Users
      /\ \A c, v : Having(users, c, v) \subseteq Users
  BY DEF ByName, Having, Inv, RowInv
<1>2. \A p \in {"count", "insert"} : Goto(r, p, None, None) => HandlersTyped'
  BY GotoTyped DEF States, HasRow
<1>3. CASE CheckPhoneExistence(r)
  BY <1>1, <1>3, ReadTyped, RefuseTyped, ReplyTyped DEF CheckPhoneExistence, Types
<1>4. CASE TrySignInWithWechat(r)
  BY <1>1, <1>4, ReadTyped, RefuseTyped, ReplyTyped DEF TrySignInWithWechat, Types
<1>5. CASE FindByName(r)
  <2>1. ASSUME NEW u \in Users, Goto(r, "setpassword", u, None) PROVE HandlersTyped'
    BY <2>1, GotoTyped DEF States, HasRow
  <2>2. \/ Goto(r, "count", None, None) \/ Refuse(r)
        \/ \E u \in Users : SignedIn(r, u) \/ Goto(r, "setpassword", u, None)
    BY <1>1, <1>5 DEF FindByName
  <2>3. HandlersTyped'
    BY <1>2, <2>1, <2>2, RefuseTyped, SignedInTyped
  <2> QED BY <1>5, <2>3, ReadTyped DEF FindByName, Types
<1>6. CASE SignInWithPassword(r)
  <2>1. Refuse(r) \/ \E u \in Users : SignedIn(r, u)
    BY <1>1, <1>6 DEF SignInWithPassword
  <2> QED BY <1>6, <2>1, ReadTyped, RefuseTyped, SignedInTyped DEF SignInWithPassword, Types
<1>7. CASE SignUpCount(r)
  BY <1>2, <1>7, ReadTyped, RefuseTyped DEF SignUpCount, Types
<1>8. CASE SignUpInsert(r)
  <2>1. pc[r] = "insert" /\ UNCHANGED <<faults, history>>
    BY <1>8 DEF SignUpInsert
  <2>2. AskInv(ask[r]) /\ ask[r].kind \in {"code", "signup", "wechat", "apple"}
    BY <2>1, Known, KindOf
  <2> DEFINE o == NewUser(ask[r])
  <2>3. o.now \in Row /\ o.orig = Original(Cols)
    BY <2>2, NewUserTyped
  <2>4. PICK u \in Users \ DOMAIN users :
          \/ users' = Create(users, u, Cols, StaledKV(o, Cols)) /\ SignedIn(r, u)
          \/ UNCHANGED users /\ Refuse(r)
    BY <1>8 DEF SignUpInsert
  <2> HIDE DEF o
  <2>5. CASE users' = Create(users, u, Cols, StaledKV(o, Cols)) /\ SignedIn(r, u)
    BY <2>1, <2>3, <2>5, CreateTyped, SignedInTyped DEF Types
  <2>6. CASE UNCHANGED users /\ Refuse(r)
    BY <2>1, <2>6, SameTyped, RefuseTyped DEF Types
  <2> QED BY <2>4, <2>5, <2>6
<1> QED BY <1>3, <1>4, <1>5, <1>6, <1>7, <1>8 DEF LookUps

LEMMA AppleSavedTyped ==
  ASSUME Inv, Types, NEW r \in Requests, pc[r] = "applesave", AppleSaved(r) PROVE HandlersTyped'
<1>1. user[r] \in Users
  BY DEF Inv, HandlerInv, HasUser, RowInv
<1> QED BY <1>1, RefuseTyped, SignedInTyped DEF AppleSaved

LEMMA ExternalTyped == ASSUME Inv, Types, NEW r \in Requests, External(r) PROVE Types'
<1>1. \A c, v : Having(users, c, v) \subseteq DOMAIN users /\ DOMAIN users \subseteq Users
  BY DEF Having, Inv, RowInv
<1>2. Goto(r, "insert", None, None) => HandlersTyped'
  BY GotoTyped DEF States, HasRow
<1>3. CASE SignInWithWeChat(r)
  <2>1. \/ Goto(r, "insert", None, None) \/ Refuse(r) \/ \E u \in Users : SignedIn(r, u)
    BY <1>1, <1>3 DEF SignInWithWeChat
  <2> QED BY <1>2, <1>3, <2>1, ReadTyped, RefuseTyped, SignedInTyped DEF SignInWithWeChat, Types
<1>4. CASE SignInWithApple(r)
  <2>1. \/ Goto(r, "insert", None, None) \/ Refuse(r)
        \/ \E u \in DOMAIN users : Goto(r, "applesave", u, Loaded(users[u])) \/ SignedIn(r, u)
    BY <1>1, <1>4 DEF SignInWithApple
  <2>2. ASSUME NEW u \in DOMAIN users, Goto(r, "applesave", u, Loaded(users[u]))
        PROVE  HandlersTyped'
    BY <1>1, <2>2, LoadedTyped, GotoTyped DEF States
  <2>3. HandlersTyped'
    BY <1>1, <1>2, <2>1, <2>2, RefuseTyped, SignedInTyped
  <2> QED BY <1>4, <2>3, ReadTyped DEF SignInWithApple, Types
<1>5. CASE AppleSave(r)
  <2> DEFINE kv == StaledKV([inst[r] EXCEPT !.now.apple_uid = ask[r].apple], {"apple_uid"})
  <2>1. pc[r] = "applesave" /\ AppleSaved(r)
    BY <1>5 DEF AppleSave
  <2>2. ask[r].apple \in Apples
    BY <2>1, Known, KindOf DEF AskInv
  <2>3. user[r] \in DOMAIN users /\ inst[r] = Loaded(inst[r].now) /\ DOMAIN inst[r].now = Cols
    BY <2>1 DEF Inv, HandlerInv, HasUser, HasRow
  <2>4. DOMAIN kv \subseteq {"apple_uid"} /\ \A c \in DOMAIN kv : kv[c] = ask[r].apple
    BY <2>3, AppleColumn
  <2>5. \/ Write(r, user[r], kv)
        \/ /\ unsaved' = unsaved \cup {ask[r].apple}
           /\ UNCHANGED <<users, faults, dead, since, overwrites>>
    BY <1>5 DEF AppleSave
  <2> HIDE DEF kv
  <2>6. ASSUME Write(r, user[r], kv) PROVE TableTyped'
    <3>1. "apple_uid" \in Cols /\ ask[r].apple \in Of("apple_uid")
      BY <2>2 DEF Cols, Of
    <3>2. DOMAIN kv \subseteq Cols /\ \A c \in DOMAIN kv : kv[c] \in Of(c)
      BY <2>4, <3>1
    <3> QED BY <2>1, <2>3, <2>6, <3>2, WriteTyped
  <2>7. ASSUME unsaved' = unsaved \cup {ask[r].apple},
               UNCHANGED <<users, faults, dead, since, overwrites>>
        PROVE  TableTyped'
    BY <2>2, <2>7 DEF Types, TableTyped
  <2> QED BY <2>1, <2>5, <2>6, <2>7, AppleSavedTyped DEF Types
<1> QED BY <1>3, <1>4, <1>5 DEF External

\* What a binding writes, of a row of the table.
LEMMA BindTyped ==
  ASSUME NEW row \in Row, NEW w \in Unions,
         NEW kv, kv = StaledKV(Filled(Loaded(row), w), {"union_id", "realname", "avatar"})
  PROVE  DOMAIN kv \subseteq Cols /\ \A c \in DOMAIN kv : kv[c] \in Of(c)
<1> DEFINE o == Filled(Loaded(row), w)
           only == {"union_id", "realname", "avatar"}
<1>1. DOMAIN row = Cols /\ \A c \in Cols : row[c] \in Of(c)
  BY RowOf, RowIsColumns
<1>2. o.now = [c \in DOMAIN row |->
                 IF c = "union_id" THEN w
                 ELSE IF c \in {"realname", "avatar"} /\ ValueOrZero(row[c]) = Blank THEN "nickname"
                 ELSE row[c]]
  BY DEF Filled, Loaded
<1>3. kv = [c \in {k \in DOMAIN o.now : k \in only /\ o.now[k] # o.orig[k]} |-> o.now[c]]
  BY DEF StaledKV
<1> HIDE DEF o
<1>4. w \in Of("union_id") /\ "nickname" \in Of("realname") /\ "nickname" \in Of("avatar")
  BY DEF Of, Texts
<1>5. \A c \in Cols : o.now[c] \in Of(c)
  BY <1>1, <1>2, <1>4
<1> QED BY <1>1, <1>2, <1>3, <1>5

LEMMA BindingTyped == ASSUME Inv, Types, NEW r \in Requests, Binding(r) PROVE Types'
<1>1. pc[r] \in BindStates
  BY DEF Binding, BindFirst, WeChatIsBond, BindSave, BindStates
<1>2. user[r] \in DOMAIN users /\ user[r] \in Users /\ ask[r].wechat \in Unions
  BY <1>1 DEF Inv, HandlerInv, HasUser, RowInv
<1>3. CASE BindFirst(r)
  <2>1. \/ BindDone(r, TRUE) \/ BindDone(r, FALSE)
        \/ Goto(r, "bindcheck", user[r], Loaded(users[user[r]]))
    BY <1>3 DEF BindFirst
  <2>2. Goto(r, "bindcheck", user[r], Loaded(users[user[r]])) => HandlersTyped'
    BY <1>2, LoadedTyped, GotoTyped DEF States
  <2> QED BY <1>3, <2>1, <2>2, ReadTyped, BindDoneTyped DEF BindFirst, Types
<1>4. CASE WeChatIsBond(r)
  <2>1. Goto(r, "bindsave", user[r], inst[r]) \/ BindDone(r, FALSE)
    BY <1>4 DEF WeChatIsBond
  <2>2. inst[r] # None => inst[r].now \in Row /\ inst[r].orig \in Row
    BY DEF Types, HandlersTyped
  <2>3. inst[r].now \in Row
    BY <1>4 DEF Types, HandlersTyped, WeChatIsBond, HasRow
  <2>4. Goto(r, "bindsave", user[r], inst[r]) => HandlersTyped'
    BY <1>2, <2>2, <2>3, GotoTyped DEF States
  <2> QED BY <1>4, <2>1, <2>4, SameTyped, BindDoneTyped DEF WeChatIsBond, Types
<1>5. CASE BindSave(r)
  <2> DEFINE kv == StaledKV(Filled(inst[r], ask[r].wechat), {"union_id", "realname", "avatar"})
  <2>1. inst[r] = Loaded(inst[r].now) /\ inst[r].now \in Row
    BY <1>5 DEF BindSave, Inv, HandlerInv, Types, HandlersTyped, HasRow
  <2>2. DOMAIN kv \subseteq Cols /\ \A c \in DOMAIN kv : kv[c] \in Of(c)
    BY <1>2, <2>1, BindTyped
  <2>3. \/ Write(r, user[r], kv) /\ BindDone(r, TRUE)
        \/ UNCHANGED <<users, faults, history>> /\ BindDone(r, FALSE)
    BY <1>5 DEF BindSave
  <2> HIDE DEF kv
  <2>4. Write(r, user[r], kv) => TableTyped'
    BY <1>1, <1>2, <2>2, WriteTyped DEF BindStates
  <2> QED BY <2>3, <2>4, SameTyped, BindDoneTyped DEF Types
<1> QED BY <1>3, <1>4, <1>5 DEF Binding

LEMMA UpdateTyped ==
  ASSUME Inv, Types, NEW r \in Requests, pc[r] \in HasUser, NEW col \in Cols, NEW v \in Of(col),
         Update(r, col, v)
  PROVE  Types'
<1> DEFINE kv == StaledKV(Object(Cols, [c \in {col} |-> v]), Cols)
<1>1. Write(r, user[r], kv) /\ Reply(r, user[r])
  BY DEF Update
<1>2. DOMAIN kv \subseteq Cols /\ \A c \in DOMAIN kv : kv[c] \in Of(c)
  <2>1. DOMAIN kv \subseteq {col} /\ \A c \in DOMAIN kv : kv[c] = v
    BY DEF StaledKV, Object, Original
  <2> QED BY <2>1
<1> HIDE DEF kv
<1>3. user[r] \in DOMAIN users /\ user[r] \in Users /\ pc[r] # "idle"
  BY DEF Inv, HandlerInv, HasUser, BindStates, RowInv
<1> QED BY <1>1, <1>2, <1>3, WriteTyped, ReplyTyped DEF Types

LEMMA ChangesTyped == ASSUME Inv, Types, NEW r \in Requests, Changes(r) PROVE Types'
<1>1. /\ "hash" \in Of("password") /\ "deleted" \in Of("status")
      /\ {Blank, "chosen"} \subseteq Of("realname") /\ {Blank, "chosen"} \subseteq Of("avatar")
      /\ {"password", "status", "realname", "avatar", "phone"} \subseteq Cols
  BY DEF Of, Texts, Cols
<1>2. user[r] \in Users \cup {None}
  BY DEF Types, HandlersTyped
<1>3. \A p \in {"taken", "setphone"} : Goto(r, p, user[r], None) => HandlersTyped'
  BY <1>2, GotoTyped DEF States, HasRow
<1>4. CASE UpdatePassword(r)
  BY <1>1, <1>4, UpdateTyped DEF UpdatePassword, HasUser
<1>5. CASE UpdateStatus(r)
  BY <1>1, <1>5, UpdateTyped DEF UpdateStatus, HasUser
<1>6. CASE UpdateProfile(r)
  BY <1>1, <1>6, UpdateTyped DEF UpdateProfile, HasUser
<1>7. CASE PhoneSelf(r)
  <2>1. Refuse(r) \/ Reply(r, user[r]) \/ Goto(r, "taken", user[r], None)
    BY <1>7 DEF PhoneSelf
  <2> QED BY <1>2, <1>3, <1>7, <2>1, ReadTyped, RefuseTyped, ReplyTyped DEF PhoneSelf, Types
<1>8. CASE PhoneTaken(r)
  BY <1>3, <1>8, SameTyped, RefuseTyped DEF PhoneTaken, Types
<1>9. CASE BindPhone(r)
  <2>1. /\ pc[r] = "setphone"
        /\ \/ Update(r, "phone", ask[r].name)
           \/ Refuse(r) /\ UNCHANGED <<users, faults, history>>
    BY <1>9 DEF BindPhone
  <2>2. ask[r].name \in Of("phone")
    BY <2>1, Known, KindOf DEF AskInv, Of
  <2> QED BY <1>1, <2>1, <2>2, UpdateTyped, SameTyped, RefuseTyped DEF HasUser, Types
<1> QED BY <1>4, <1>5, <1>6, <1>7, <1>8, <1>9 DEF Changes

LEMMA FailTyped == ASSUME Inv, Types, NEW r \in Requests, Fail(r) PROVE Types'
<1>1. /\ UNCHANGED <<users, dead, since, overwrites>> /\ faults < MaxFaults /\ faults' = faults + 1
  BY DEF Fail
<1>2. \/ pc[r] = "applesave" /\ AppleSaved(r) /\ unsaved' = unsaved \cup {ask[r].apple}
      \/ BindDone(r, FALSE) /\ UNCHANGED unsaved
      \/ Refuse(r) /\ UNCHANGED unsaved
  BY DEF Fail
<1>3. pc[r] = "applesave" => ask[r].apple \in Apples
  BY Known, KindOf DEF AskInv
<1>4. faults' \in 0..MaxFaults
  BY <1>1, IdentityConstants DEF IdentityConstants, Types, TableTyped
<1>5. TableTyped'
  BY <1>1, <1>2, <1>3, <1>4 DEF Types, TableTyped
<1>6. HandlersTyped'
  BY <1>2, AppleSavedTyped, BindDoneTyped, RefuseTyped
<1> QED BY <1>5, <1>6 DEF Types

LEMMA NextTypes == Inv /\ Types /\ [Next]_vars => Types'
<1> SUFFICES ASSUME Inv, Types, [Next]_vars PROVE Types'
  OBVIOUS
<1>1. CASE UNCHANGED vars
  BY <1>1 DEF vars, request, history, Types, TableTyped, HandlersTyped
<1>2. ASSUME NEW r \in Requests,
             Receive(r) \/ LookUps(r) \/ External(r) \/ Binding(r) \/ Changes(r) \/ Fail(r)
      PROVE  Types'
  BY <1>2, ReceiveTyped, LookUpsTyped, ExternalTyped, BindingTyped, ChangesTyped, FailTyped
<1> QED BY <1>1, <1>2 DEF Next

-----------------------------------------------------------------------------
(* The theorems.                                                           *)

LEMMA Always == Spec => []Inv
BY InitInv, NextInv, PTL DEF Spec

\* Nobody signs in as a user who was destroyed before: not by any id, and whatever other
\* sign-ins, bindings and resets do meanwhile. (the status checks of user.go)
THEOREM DestroyedStayOut == Spec => []NoSignInAfterDestroy
<1>1. Inv => NoSignInAfterDestroy
  BY DEF Inv, HandlerInv, NoSignInAfterDestroy
<1> QED BY <1>1, Always, PTL

\* A save of a row loaded earlier writes no column but those its request is about, so it
\* undoes no write to another one. (StaledKV, and the columns named to Save)
THEOREM SavesUndoNothing == Spec => []WritesSurvive
<1>1. Inv => WritesSurvive
  BY DEF Inv, OverwriteInv, WritesSurvive
<1> QED BY <1>1, Always, PTL

\* A link of a WeChat id or an Apple id is replaced in the two known ways only.
\* (user.go:361-367, 466-503)
THEOREM LinksMoveOnly == Spec => []LinksMoveKnownWays
<1>1. Inv => LinksMoveKnownWays
  BY DEF Inv, OverwriteInv, LinksMoveKnownWays
<1> QED BY <1>1, Always, PTL

\* The empty string is stored as the e-mail of one user with an Apple id at most, and in no
\* other column that leads to a user. (auth.go:1220, the columns given to ToUsersN)
THEOREM BlankIsOneApples == Spec => []OnlyAppleMailIsBlank
<1>1. Inv => OnlyAppleMailIsBlank
  BY DEF Inv, RowInv, OnlyAppleMailIsBlank
<1> QED BY <1>1, Always, PTL

LEMMA ClaimsAlways == Spec => []Claims
BY InitClaims, NextClaims, Always, PTL DEF Spec

\* Two answers for one WeChat id or Apple id name one user, for any tables the unique indexes
\* admit, unless a link of that id was replaced in between, or could not be saved.
\* (user.go:353-540, the unique indexes)
THEOREM IdsLeadToOneUser == Spec => []AnswersAgree
<1>1. Inv /\ Claims => AnswersAgree
  <2> SUFFICES ASSUME Inv, Claims, NEW r \in Requests, NEW s \in Requests,
                      answer[r] # None, ask[r].kind \in ClaimKinds,
                      answer[s] # None, ask[s].kind \in ClaimKinds,
                      Claim(r) = Claim(s), Claim(r)[2] \notin unsaved,
                      \A o \in overwrites : o.old # Claim(r)[2]
               PROVE  answer[r] = answer[s]
    BY DEF AnswersAgree, ClaimKinds
  <2> DEFINE c == Claim(r)[1]
             x == Claim(r)[2]
  <2>1. AskInv(ask[r])
    BY DEF Claims, ClaimInv, Inv, HandlerInv
  <2>2. c \in LinkCols /\ x # Null
    BY <2>1, Ids DEF Claim, AskInv, ClaimKinds, LinkCols
  <2>3. Leads(answer[r], c, x) /\ Leads(answer[s], c, x)
    BY DEF Claims, ClaimInv
  <2>4. /\ answer[r] \in DOMAIN users /\ users[answer[r]][c] = x
        /\ answer[s] \in DOMAIN users /\ users[answer[s]][c] = x
    BY <2>3 DEF Leads
  <2> HIDE DEF c, x
  <2> QED BY <2>2, <2>4 DEF Claims, UniqueInv
<1> QED BY <1>1, Always, ClaimsAlways, PTL

\* Every variable has its type, whichever rows are written and by whatever handlers: above all,
\* what an object writes keeps every column's values. (users.orm.go, auth.go)
THEOREM TypeCorrect == Spec => []TypeOK
<1>1. Types => TypeOK
  BY DEF Types, TableTyped, HandlersTyped, TypeOK
<1> QED BY <1>1, InitTypes, NextTypes, Always, PTL DEF Spec
=============================================================================
