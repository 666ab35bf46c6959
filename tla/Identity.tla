------------------------------ MODULE Identity ------------------------------
(***************************************************************************)
(* Who is who: the rows of the users table, the phone, e-mail, WeChat id   *)
(* and Apple id that lead to them, and every request that looks a user up  *)
(* by one of these, links one, or changes the row. A request's states are  *)
(* its database calls in order. The last statement of a transaction and    *)
(* its commit are one step; a read before it is a step of its own, and     *)
(* what it returned is kept in "inst".                                     *)
(***************************************************************************)
EXTENDS Record, Naturals

CONSTANTS
  Users,      \* row ids
  Phones, Emails, Unions, Apples,   \* what leads to a user, by column
  Start,      \* the tables a run may start with
  Requests,   \* the requests of the run
  Kinds,      \* the endpoints they go to
  None,       \* no user, no id, nothing loaded
  MaxFaults   \* database calls that fail

VARIABLES
  users,      \* the table
  pc, ask,    \* the state of each request's handler, and its parameters
  user,       \* the user it has found, signed up, or is sent by
  inst,       \* the object it has loaded
  answer,     \* the user in its answer; None for a refusal
  faults,     \* calls that failed
  dead,       \* history: users destroyed when the request began
  since,      \* history: columns others changed in its row after it was loaded
  overwrites, \* history: values replaced that were links, or set since the replacer's load
  unsaved     \* history: Apple ids whose Save failed without ending the sign-in

request == <<pc, ask, user, inst, answer>>
history == <<dead, since, overwrites, unsaved>>
vars    == <<users, request, faults, history>>

Cols       == {"email", "phone", "password", "realname", "union_id", "avatar", "apple_uid", "status"}
UniqueCols == {"email", "phone", "union_id", "apple_uid"}
LinkCols   == {"union_id", "apple_uid"}
SignIns    == {"code", "signup", "password", "wechat", "apple"}
LookOnly   == {"check", "try"}
AllKinds   == SignIns \cup LookOnly
              \cup {"bind", "reset", "newpassword", "phone", "destroy", "profile"}
States     == {"idle", "find", "count", "insert", "signin", "wechat", "apple", "applesave",
               "bind", "bindcheck", "bindsave", "setpassword", "self", "taken", "setphone",
               "check", "try", "destroy", "profile", "done"}
Texts      == {Null, Blank, "nickname", "chosen"}
Row        == [email : Emails \cup {Null, Blank}, phone : Phones \cup {Null},
               password : {Null, Blank, "hash"}, realname : Texts, union_id : Unions \cup {Null},
               avatar : Texts, apple_uid : Apples \cup {Null}, status : {"active", "deleted"}]
Ask        == [kind : AllKinds, name : Phones \cup Emails \cup {Blank, None}, wechat : Unions \cup {None},
               apple : Apples \cup {None}, from : Users \cup {None}]
IsTable(t) == DOMAIN t \subseteq Users /\ t \in [DOMAIN t -> Row]
\* No value but NULL twice in a column with a unique index.
RespectsIndexes(t) == \A c \in UniqueCols : \A u, v \in DOMAIN t :
                         t[u][c] = t[v][c] /\ t[u][c] # Null => u = v
\* The empty string is the e-mail of one user with an Apple id, and no other link.
BlankIsApples(t) == \A u \in DOMAIN t : \A c \in UniqueCols : t[u][c] = Blank =>
                      /\ c = "email" /\ t[u].apple_uid # Null
                      /\ \A v \in DOMAIN t : t[v].email = Blank => v = u
Blanks     == [c \in Cols |-> Blank]

ASSUME IdentityConstants ==
  /\ Kinds \subseteq AllKinds /\ MaxFaults \in Nat
  /\ \A t \in Start : IsTable(t) /\ RespectsIndexes(t) /\ BlankIsApples(t)
  /\ None \notin Users \cup Phones \cup Emails \cup Unions \cup Apples \cup {Blank}
  /\ \A S \in {Phones, Emails, Unions, Apples} : Null \notin S /\ Blank \notin S

Destroyed == {u \in DOMAIN users : users[u].status = "deleted"}
NameCol(name) == IF name \in Phones THEN "phone" ELSE "email"
ByName(name)  == Having(users, NameCol(name), name)

Init ==
  /\ users \in Start
  /\ pc = [r \in Requests |-> "idle"]
  /\ ask = [r \in Requests |-> None] /\ user = [r \in Requests |-> None]
  /\ inst = [r \in Requests |-> None] /\ answer = [r \in Requests |-> None]
  /\ faults = 0
  /\ dead = [r \in Requests |-> {}] /\ since = [r \in Requests |-> {}]
  /\ overwrites = {} /\ unsaved = {}

-----------------------------------------------------------------------------
(* What the code returns, and what a handler does after a call.            *)

\* The request ends with the user u in its answer, or with None: an error.
Reply(r, u) ==
  /\ pc' = [pc EXCEPT ![r] = "done"]
  /\ answer' = [answer EXCEPT ![r] = u]
  /\ inst' = [inst EXCEPT ![r] = None]
  /\ UNCHANGED <<ask, user>>

Refuse(r) == Reply(r, None)

Goto(r, state, u, loaded) ==
  /\ pc' = [pc EXCEPT ![r] = state]
  /\ user' = [user EXCEPT ![r] = u]
  /\ inst' = [inst EXCEPT ![r] = loaded]
  /\ UNCHANGED <<ask, answer>>

\* A sign-in that has its user binds the WeChat id of the token, or answers.
SignedIn(r, u) ==
  IF ask[r].wechat # None /\ ask[r].kind # "wechat"
    THEN Goto(r, "bind", u, None)
    ELSE /\ pc' = [pc EXCEPT ![r] = "done"]
         /\ user' = [user EXCEPT ![r] = u]
         /\ answer' = [answer EXCEPT ![r] = u]
         /\ inst' = [inst EXCEPT ![r] = None]
         /\ UNCHANGED ask

\* The end of BindWeChat: its own handler reports an error, a sign-in only logs it.
BindDone(r, ok) == Reply(r, IF ok \/ ask[r].kind # "bind" THEN user[r] ELSE None)

Reads(r) ==
  /\ since' = [since EXCEPT ![r] = {}]
  /\ UNCHANGED <<users, faults, dead, overwrites, unsaved>>

\* An UPDATE of the row of u that takes effect.
Write(r, u, kv) ==
  LET changed == {c \in DOMAIN kv : kv[c] # users[u][c]}
      noted   == {c \in changed : c \in since[r] \/ (c \in LinkCols /\ users[u][c] # Null)}
  IN /\ users' = UpdateFields(users, u, kv)
     /\ since' = [s \in Requests |-> IF s # r /\ user[s] = u /\ pc[s] # "done"
                                       THEN since[s] \cup changed ELSE since[s]]
     /\ overwrites' = overwrites \cup
          {[col |-> c, old |-> users[u][c], kind |-> ask[r].kind, raced |-> c \in since[r],
            mail |-> ask[r].name # None /\ ask[r].name = users[u].email] : c \in noted}
     /\ UNCHANGED <<faults, dead, unsaved>>

-----------------------------------------------------------------------------
(* Requests.                                                               *)

Shape(k, names, unions, apples, from) ==
  [kind : {k}, name : names, wechat : unions, apple : apples, from : from]

\* Apple's claim of an e-mail is taken as it is, and may be empty.
Asked(k) ==
  LET token == Unions \cup {None} IN
  CASE k \in {"code", "signup", "password"} -> Shape(k, Phones \cup Emails, token, {None}, {None})
    [] k \in {"wechat", "try"} -> Shape(k, {None}, Unions, {None}, {None})
    [] k = "apple"  -> Shape(k, Emails \cup {Blank}, token, Apples, {None})
    [] k = "bind"   -> Shape(k, {None}, Unions, {None}, DOMAIN users)
    [] k \in {"reset", "check"} -> Shape(k, Phones \cup Emails, {None}, {None}, {None})
    [] k = "phone"  -> Shape(k, Phones, {None}, {None}, DOMAIN users)
    [] OTHER        -> Shape(k, {None}, {None}, {None}, DOMAIN users)

FirstState ==
  [check |-> "check", try |-> "try", code |-> "find", signup |-> "count",
   password |-> "signin", wechat |-> "wechat", apple |-> "apple", bind |-> "bind",
   reset |-> "find", newpassword |-> "setpassword",
   phone |-> "self", destroy |-> "destroy", profile |-> "profile"]

\* A request arrives; the sender of one that needs it was admitted by the middleware.
Receive(r) ==
  /\ pc[r] = "idle"
  /\ \E k \in Kinds : \E a \in Asked(k) :
       /\ pc' = [pc EXCEPT ![r] = FirstState[k]]
       /\ ask' = [ask EXCEPT ![r] = a]
       /\ user' = [user EXCEPT ![r] = a.from]
  /\ dead' = [dead EXCEPT ![r] = Destroyed]
  /\ UNCHANGED <<users, inst, answer, faults, since, overwrites, unsaved>>

\* CheckPhoneExistence: whether a name leads to an account, before a sign-in or sign-up.
CheckPhoneExistence(r) ==
  /\ pc[r] = "check"
  /\ Reads(r)
  /\ \/ ByName(ask[r].name) \ Destroyed = {} /\ Refuse(r)
     \/ \E u \in ByName(ask[r].name) \ Destroyed : Reply(r, u)

\* TrySignInWithWechat: whether anyone has the WeChat id, whatever became of him.
TrySignInWithWechat(r) ==
  /\ pc[r] = "try"
  /\ Reads(r)
  /\ \/ Having(users, "union_id", ask[r].wechat) = {} /\ Refuse(r)
     \/ \E u \in Having(users, "union_id", ask[r].wechat) : Reply(r, u)

\* GetUserByPhone and GetUserByEmail, for SignInOrUpWithSMSCode and ResetPassword.
FindByName(r) ==
  /\ pc[r] = "find"
  /\ Reads(r)
  /\ \/ /\ ByName(ask[r].name) = {}
        /\ IF ask[r].kind = "code" THEN Goto(r, "count", None, None) ELSE Refuse(r)
     \/ \E u \in ByName(ask[r].name) :
          IF u \in Destroyed THEN Refuse(r)
          ELSE IF ask[r].kind = "code" THEN SignedIn(r, u) ELSE Goto(r, "setpassword", u, None)

\* SignInWithPassword: the row whose e-mail or phone it is, and bcrypt's verdict.
SignInWithPassword(r) ==
  /\ pc[r] = "signin"
  /\ Reads(r)
  /\ \/ ByName(ask[r].name) = {} /\ Refuse(r)
     \/ \E u \in ByName(ask[r].name) :
          IF u \notin Destroyed /\ users[u].password = "hash" THEN SignedIn(r, u) ELSE Refuse(r)

\* The Count that SignUpPhone and SignUpEmail begin their transaction with.
SignUpCount(r) ==
  /\ pc[r] = "count"
  /\ Reads(r)
  /\ IF ByName(ask[r].name) = {} THEN Goto(r, "insert", None, None) ELSE Refuse(r)

\* The row of a new user, as each kind of sign-up fills it.
NewUser(a) ==
  LET plain == [Blanks EXCEPT !.status = "active"] IN
  CASE a.kind = "wechat" ->
         ToN([plain EXCEPT !.union_id = a.wechat, !.realname = "nickname", !.avatar = "nickname"],
             {"union_id", "avatar", "realname", "status"})
    [] a.kind = "apple" ->
         ToN([plain EXCEPT !.apple_uid = a.apple, !.email = a.name],
             {"apple_uid", "email", "realname", "status"})
    [] OTHER ->
         ToN([[plain EXCEPT !.password = IF a.kind = "signup" THEN "hash" ELSE Blank]
               EXCEPT ![NameCol(a.name)] = a.name],
             {NameCol(a.name), "password", "realname", "status"})

\* The INSERT that ends a sign-up's transaction; a unique index may refuse it.
SignUpInsert(r) ==
  /\ pc[r] = "insert"
  /\ LET kv == StaledKV(NewUser(ask[r]), Cols) IN
     \E u \in Users \ DOMAIN users :
       IF Unique(users, u, kv, UniqueCols)
         THEN /\ users' = Create(users, u, Cols, kv)
              /\ SignedIn(r, u)
         ELSE /\ UNCHANGED users
              /\ Refuse(r)
  /\ UNCHANGED <<faults, history>>

\* Mutant: the status of the row that was found is not looked at.
SignInDestroyed(r) ==
  /\ pc[r] = "wechat"
  /\ Reads(r)
  /\ \/ Having(users, "union_id", ask[r].wechat) = {} /\ Goto(r, "insert", None, None)
     \/ \E u \in Having(users, "union_id", ask[r].wechat) : SignedIn(r, u)

\* SignInWithWeChat: the union id of a match is saved unchanged, which writes nothing.
SignInWithWeChat(r) ==
  /\ pc[r] = "wechat"
  /\ Reads(r)
  /\ \/ Having(users, "union_id", ask[r].wechat) = {} /\ Goto(r, "insert", None, None)
     \/ \E u \in Having(users, "union_id", ask[r].wechat) :
          IF u \in Destroyed THEN Refuse(r) ELSE SignedIn(r, u)

\* SignInWithApple: the users with the Apple id or the e-mail. Of two, the one with the id.
SignInWithApple(r) ==
  /\ pc[r] = "apple"
  /\ Reads(r)
  /\ LET mine    == Having(users, "apple_uid", ask[r].apple)
         matched == mine \cup Having(users, "email", ask[r].name)
     IN \/ matched = {} /\ Goto(r, "insert", None, None)
        \/ \E u \in matched :
             \/ matched = {u} /\ Goto(r, "applesave", u, Loaded(users[u]))
             \/ matched # {u} /\ u \in mine
                /\ IF u \in Destroyed THEN Refuse(r) ELSE SignedIn(r, u)

\* A single match is given the Apple id; an error is logged, and the sign-in goes on.
AppleSaved(r) ==
  IF inst[r].now.status = "deleted" THEN Refuse(r) ELSE SignedIn(r, user[r])

AppleSave(r) ==
  /\ pc[r] = "applesave"
  /\ LET kv == StaledKV([inst[r] EXCEPT !.now.apple_uid = ask[r].apple], {"apple_uid"}) IN
     IF Unique(users, user[r], kv, UniqueCols)
       THEN Write(r, user[r], kv)
       ELSE /\ unsaved' = unsaved \cup {ask[r].apple}
            /\ UNCHANGED <<users, faults, dead, since, overwrites>>
  /\ AppleSaved(r)

-----------------------------------------------------------------------------
(* BindWeChat, called by its own handler and by sign-ins with a token.     *)

\* Mutant: another WeChat id of the user is not looked at.
BindFirstAny(r) ==
  /\ pc[r] = "bind"
  /\ Reads(r)
  /\ IF ValueOrZero(users[user[r]].union_id) = ask[r].wechat
       THEN BindDone(r, TRUE)
       ELSE Goto(r, "bindcheck", user[r], Loaded(users[user[r]]))

BindFirst(r) ==
  /\ pc[r] = "bind"
  /\ Reads(r)
  /\ LET bound == ValueOrZero(users[user[r]].union_id) IN
     \/ bound = ask[r].wechat /\ BindDone(r, TRUE)
     \/ bound \notin {ask[r].wechat, Blank} /\ BindDone(r, FALSE)
     \/ bound = Blank /\ Goto(r, "bindcheck", user[r], Loaded(users[user[r]]))

\* WeChatIsBond reads with repo.db, in no transaction.
WeChatIsBond(r) ==
  /\ pc[r] = "bindcheck"
  /\ IF Having(users, "union_id", ask[r].wechat) = {}
       THEN Goto(r, "bindsave", user[r], inst[r])
       ELSE BindDone(r, FALSE)
  /\ UNCHANGED <<users, faults, history>>

\* The id, and the nickname and the picture where the loaded row had none.
Filled(inst0, w) ==
  [inst0 EXCEPT !.now = [c \in DOMAIN @ |->
     IF c = "union_id" THEN w
     ELSE IF c \in {"realname", "avatar"} /\ ValueOrZero(@[c]) = Blank THEN "nickname" ELSE @[c]]]

\* Mutant: the error of Save is not returned.
BindSaveSilent(r) ==
  /\ pc[r] = "bindsave"
  /\ LET kv == StaledKV(Filled(inst[r], ask[r].wechat), {"union_id", "realname", "avatar"}) IN
     IF Unique(users, user[r], kv, UniqueCols) THEN Write(r, user[r], kv)
                                               ELSE UNCHANGED <<users, faults, history>>
  /\ BindDone(r, TRUE)

BindSave(r) ==
  /\ pc[r] = "bindsave"
  /\ LET kv == StaledKV(Filled(inst[r], ask[r].wechat), {"union_id", "realname", "avatar"}) IN
     \/ Unique(users, user[r], kv, UniqueCols) /\ Write(r, user[r], kv) /\ BindDone(r, TRUE)
     \/ /\ ~Unique(users, user[r], kv, UniqueCols)
        /\ UNCHANGED <<users, faults, history>>
        /\ BindDone(r, FALSE)

-----------------------------------------------------------------------------
(* Updates of one column of one row.                                       *)

Update(r, col, v) ==
  LET kv == StaledKV(Object(Cols, [c \in {col} |-> v]), Cols) IN
  /\ Write(r, user[r], kv)
  /\ Reply(r, user[r])

UpdatePassword(r) == pc[r] = "setpassword" /\ Update(r, "password", "hash")
UpdateStatus(r)   == pc[r] = "destroy" /\ Update(r, "status", "deleted")
\* UpdateRealname refuses an empty name; UpdateAvatar takes what it is given.
UpdateProfile(r)  ==
  /\ pc[r] = "profile"
  /\ \/ Update(r, "realname", "chosen")
     \/ \E v \in {Blank, "chosen"} : Update(r, "avatar", v)

\* BindPhone: the sender's row, then the phone's, then the transaction.
PhoneSelf(r) ==
  /\ pc[r] = "self"
  /\ Reads(r)
  /\ LET u == user[r]
         had == ValueOrZero(users[u].phone)
     IN \/ u \in Destroyed /\ Refuse(r)
        \/ u \notin Destroyed /\ had = ask[r].name /\ Reply(r, u)
        \/ u \notin Destroyed /\ had \notin {ask[r].name, Blank} /\ Refuse(r)
        \/ u \notin Destroyed /\ had = Blank /\ Goto(r, "taken", u, None)

PhoneTaken(r) ==
  /\ pc[r] = "taken"
  /\ IF ByName(ask[r].name) = {} THEN Goto(r, "setphone", user[r], None) ELSE Refuse(r)
  /\ UNCHANGED <<users, faults, history>>

BindPhone(r) ==
  /\ pc[r] = "setphone"
  /\ IF ByName(ask[r].name) \subseteq {user[r]}
       THEN Update(r, "phone", ask[r].name)
       ELSE Refuse(r) /\ UNCHANGED <<users, faults, history>>

-----------------------------------------------------------------------------
\* A database call fails. A sign-in survives the failure of a Save of its Apple id
\* and of its binding; everything else ends in an error.
Fail(r) ==
  /\ pc[r] \notin {"idle", "done"} /\ faults < MaxFaults
  /\ faults' = faults + 1
  /\ \/ pc[r] = "applesave" /\ AppleSaved(r) /\ unsaved' = unsaved \cup {ask[r].apple}
     \/ pc[r] \in {"bind", "bindcheck", "bindsave"} /\ BindDone(r, FALSE) /\ UNCHANGED unsaved
     \/ /\ pc[r] \notin {"applesave", "bind", "bindcheck", "bindsave"}
        /\ Refuse(r) /\ UNCHANGED unsaved
  /\ UNCHANGED <<users, dead, since, overwrites>>

LookUps(r) == CheckPhoneExistence(r) \/ TrySignInWithWechat(r) \/ FindByName(r)
              \/ SignInWithPassword(r) \/ SignUpCount(r) \/ SignUpInsert(r)
External(r) == SignInWithWeChat(r) \/ SignInWithApple(r) \/ AppleSave(r)
Binding(r) == BindFirst(r) \/ WeChatIsBond(r) \/ BindSave(r)
Changes(r) == UpdatePassword(r) \/ UpdateStatus(r) \/ UpdateProfile(r)
              \/ PhoneSelf(r) \/ PhoneTaken(r) \/ BindPhone(r)

Next == \E r \in Requests :
          Receive(r) \/ LookUps(r) \/ External(r) \/ Binding(r) \/ Changes(r) \/ Fail(r)

Spec == Init /\ [][Next]_vars

-----------------------------------------------------------------------------
(* Properties.                                                             *)

Overwrite == [col : Cols, old : Texts \cup {"hash"} \cup Phones \cup Emails \cup Unions \cup Apples
                                \cup {"active", "deleted"},
              kind : AllKinds, raced : BOOLEAN, mail : BOOLEAN]

\* Every variable has its type: rows have values of their columns, links among them only
\* ids of their own kind, and a handler its state. (users.orm.go, auth.go)
TypeOK ==
  /\ IsTable(users)
  /\ pc \in [Requests -> States]
  /\ ask \in [Requests -> Ask \cup {None}]
  /\ user \in [Requests -> Users \cup {None}]
  /\ answer \in [Requests -> Users \cup {None}]
  /\ \A r \in Requests : inst[r] # None => inst[r].now \in Row /\ inst[r].orig \in Row
  /\ faults \in 0..MaxFaults
  /\ dead \in [Requests -> SUBSET Users]
  /\ since \in [Requests -> SUBSET Cols]
  /\ overwrites \subseteq Overwrite
  /\ unsaved \subseteq Apples

\* No sign-in answers with a user who was destroyed before it began, whichever id it came
\* by and whatever overlapped, and no check of a name says there is one.
\* (the status checks of user.go, and 456, 535)
NoSignInAfterDestroy ==
  \A r \in Requests :
    pc[r] = "done" /\ ask[r].kind \in SignIns \cup {"check"} => answer[r] \notin dead[r]

\* A request that writes a row it had loaded undoes no write made since, except to a column
\* it is there to set. Status, password and e-mail are never undone. (StaledKV and the lists of
\* columns given to Save)
Sets == [k \in AllKinds |->
  CASE k \in {"code", "signup", "password", "bind"} -> {"union_id", "realname", "avatar"}
    [] k = "apple"   -> {"apple_uid", "union_id", "realname", "avatar"}
    [] k = "phone"   -> {"phone"}
    [] k \in {"reset", "newpassword"} -> {"password"}
    [] k = "profile" -> {"realname", "avatar"}
    [] k = "destroy" -> {"status"}
    [] OTHER         -> {}]

WritesSurvive == \A o \in overwrites : o.raced => o.col \in Sets[o.kind]

\* A link is only replaced in two ways: a WeChat id by a binding that had loaded the row
\* before the id was set, an Apple id by a sign-in with another Apple id and the row's
\* e-mail, the empty one included, or by one that overlapped. (user.go:361-367, 466-503)
LinksMoveKnownWays ==
  \A o \in overwrites :
    /\ o.col = "union_id" /\ o.old # Null => o.raced
    /\ o.col = "apple_uid" /\ o.old # Null => o.kind = "apple" /\ (o.mail \/ o.raced)

\* Two answers for one WeChat id or one Apple id, that of TrySignInWithWechat included, name
\* one user, unless a link of that id was replaced in between, or could not be saved.
\* (user.go:353-540, the unique indexes)
Claim(r) ==
  IF ask[r].kind \in {"wechat", "bind", "try"} THEN <<"union_id", ask[r].wechat>>
                                       ELSE <<"apple_uid", ask[r].apple>>

AnswersAgree ==
  \A r, s \in Requests :
    /\ answer[r] # None /\ ask[r].kind \in {"wechat", "bind", "try", "apple"}
    /\ answer[s] # None /\ ask[s].kind \in {"wechat", "bind", "try", "apple"}
    /\ Claim(r) = Claim(s) /\ Claim(r)[2] \notin unsaved
    /\ \A o \in overwrites : o.old # Claim(r)[2]
    => answer[r] = answer[s]

\* Of what leads to a user only the e-mail is ever the empty string: the claim of a sign-in
\* with Apple, in the row of a user with an Apple id, of which there is one at most: the next
\* unknown Apple id with an empty claim is taken for that user's. Other sign-ups leave NULL in
\* the columns they do not fill. (auth.go:1220, the columns given to ToUsersN, user.go:472-519)
OnlyAppleMailIsBlank == BlankIsApples(users)
=============================================================================
