----------------------------- MODULE BootProofs -----------------------------
(***************************************************************************)
(* Proofs about Session and Input as parts of Boot, for every set of names *)
(* and passwords, every hash and every size of the user table: what the    *)
(* modes of the shell promise, at every interleaving of typed lines with   *)
(* the boot, and over disk errors and power failures; and that the         *)
(* decoders of keyboard and mouse stay in step with the devices.           *)
(***************************************************************************)
EXTENDS Boot, FiniteSetTheorems, WellFoundedInduction, TLAPS

SignupModes == {"SIGNUP_USER", "SIGNUP_PASS", "SIGNUP_CONFIRM"}

\* As long as no account was created during boot, the shell that is not up
\* yet is in the sign-up dialogue, there is no account until the table is
\* copied, and shell_init goes to the sign-up only with an empty table.
BootInv == ~early =>
    /\ ~Started /\ phase # "halted" => mode \in SignupModes
    /\ phase \in {"start", "disk", "clearing", "cleared", "read", "to_signup"} => Active(users) = {}

\* The name that the sign-up is for has been typed.
PendingInv == mode \in {"SIGNUP_PASS", "SIGNUP_CONFIRM"} => pending.name \in Names

\* Onboarding is complete only with a use case, in memory and on disk.
Complete(table) == \A i \in Index : table[i].onboarded => table[i].usecase # "none"
OnboardInv == ~early => Complete(users) /\ Complete(disk) /\ Complete(sector)

\* As long as the disk works, load_from_disk and save_to_disk bring memory and
\* disk together and keep them so.
LoadInv == present /\ ~failed /\ ~early =>
    /\ phase = "read" => sector = disk
    /\ phase \in {"loaded", "to_signup", "to_login", "prompt", "up"} => users = disk

\* Both tables hold one account at most.  The one in load_from_disk's buffer
\* comes from the disk.
SectorInv == ~early => Cardinality(Active(sector)) <= 1

SInv == /\ SessionTypeOK /\ BootInv /\ PendingInv /\ OnboardInv /\ LoadInv /\ SectorInv
        /\ SessionHasUser /\ OneAccount /\ HiddenInput

-----------------------------------------------------------------------------
(* A step of the machine, as the session sees it *)

SessionStep ==
    \/ Running /\ (Line \/ PackagesFault \/ Halt \/ EditorKey)
    \/ SessionBoot
    \/ PowerFails
    \/ UNCHANGED sessionVars

LEMMA SessionView == [Next]_vars => SessionStep
BY DEF Next, Keyboard, Mouse, Start, Power, ShellUpdate, vars, SessionStep

LEMMA Constants ==
    /\ Index \subseteq Nat \ {0} /\ IsFiniteSet(Index) /\ Nobody \notin Index
    /\ "none" \notin Names /\ "none" \notin Passwords /\ "none" \notin UseCases
    /\ NoUser \in User /\ ~NoUser.active /\ ~NoUser.onboarded
    /\ NoAccounts \in Table /\ Active(NoAccounts) = {}
    /\ \A t \in Table : Active(t) \subseteq Index
<1>1. Index \subseteq Nat \ {0} /\ IsFiniteSet(Index) /\ Nobody \notin Index
  BY UsersAssumption, FS_Interval DEF Index, Nobody
<1>2. NoUser \in User /\ ~NoUser.active /\ ~NoUser.onboarded
  BY DEF NoUser, User
<1>3. NoAccounts \in Table /\ Active(NoAccounts) = {}
  BY <1>2 DEF NoAccounts, Table, Active
<1>4. \A t \in Table : Active(t) \subseteq Index
  BY DEF Active
<1> QED BY <1>1, <1>2, <1>3, <1>4, NoneAssumption

\* An entry that is not active is empty.
LEMMA EmptyTable == \A t \in Table : Active(t) = {} => t = NoAccounts
<1> SUFFICES ASSUME NEW t \in Table, Active(t) = {} PROVE t = NoAccounts
  OBVIOUS
<1>1. \A i \in Index : t[i] = NoUser
  BY DEF Active, Table, User
<1> QED BY <1>1 DEF Table, NoAccounts

\* find returns an account if there is one with the name, and only then.
LEMMA FindFacts ==
    ASSUME NEW t \in Table, NEW name
    PROVE  /\ Find(t, name) \subseteq Active(t)
           /\ Find(t, name) = {} => Named(t, name) = {}
<1>1. Find(t, name) \subseteq Active(t) /\ Named(t, name) \subseteq Nat
  BY Constants DEF Find, Named
<1>2. ASSUME Named(t, name) # {} PROVE Find(t, name) # {}
  <2> DEFINE R == OpToRel(<, Nat)
  <2>1. IsWellFoundedOn(R, Nat)
    BY NatLessThanWellFounded
  <2>a. \A i, j \in Nat : j < i => <<j, i>> \in R
    BY DEF OpToRel
  <2> HIDE DEF R
  <2>2. PICK i \in Named(t, name) : \A j \in Named(t, name) : <<j, i>> \notin R
    BY <1>1, <1>2, <2>1, WFMin
  <2>3. \A j \in Named(t, name) : i <= j
    <3> SUFFICES ASSUME NEW j \in Named(t, name) PROVE i <= j
      OBVIOUS
    <3>1. i \in Nat /\ j \in Nat /\ <<j, i>> \notin R
      BY <1>1, <2>2
    <3>2. ~(j < i)
      BY <2>a, <3>1
    <3> QED BY <3>1, <3>2
  <2> QED BY <2>3 DEF Find
<1> QED BY <1>1, <1>2

\* What a change of the table that is saved does
LEMMA SavedFacts ==
    ASSUME SessionTypeOK, NEW t \in Table, Saved(t)
    PROVE  /\ users' = t /\ users' \in Table
           /\ disk' \in {t, disk} /\ disk' \in Table
           /\ failed' \in BOOLEAN
           /\ present /\ ~failed' => ~failed /\ disk' = t
BY DEF SessionTypeOK, Saved, WriteSector

\* The entry of a new account
LEMMA CreateFacts ==
    ASSUME SessionTypeOK, NEW i \in Index, NEW name \in Names, NEW password \in Passwords,
           FreeEntry(i)
    PROVE  LET t == [users EXCEPT ![i] = NewUser(name, password)]
           IN  /\ t \in Table /\ Active(t) = Active(users) \cup {i} /\ i \notin Active(users)
               /\ Complete(users) => Complete(t)
               /\ t[i].name = Cut[name] /\ ~t[i].onboarded
<1> DEFINE t == [users EXCEPT ![i] = NewUser(name, password)]
<1>1. /\ NewUser(name, password) \in User /\ NewUser(name, password).active /\ ~NewUser(name, password).onboarded
      /\ NewUser(name, password).name = Cut[name]
  BY PasswordAssumption, CutAssumption DEF NewUser, User
<1>2. users \in [Index -> User] /\ i \notin Active(users)
  BY DEF SessionTypeOK, Table, FreeEntry
<1>3. t \in Table /\ t[i] = NewUser(name, password) /\ \A j \in Index \ {i} : t[j] = users[j]
  BY <1>1, <1>2 DEF Table
<1>4. Active(t) = Active(users) \cup {i}
  BY <1>1, <1>2, <1>3 DEF Active
<1>5. Complete(users) => Complete(t)
  BY <1>1, <1>3 DEF Complete
<1>6. t[i].name = Cut[name] /\ ~t[i].onboarded
  BY <1>1, <1>3
<1> QED BY <1>2, <1>3, <1>4, <1>5, <1>6

\* set_usecase and complete_onboarding change one field of the entry.
LEMMA ChangeFacts ==
    ASSUME SessionTypeOK, NEW i \in Active(users)
    PROVE  /\ \A u \in UseCases : LET t == [users EXCEPT ![i].usecase = u]
                                  IN  /\ t \in Table /\ Active(t) = Active(users)
                                      /\ t[i].usecase = u /\ (Complete(users) => Complete(t))
           /\ LET t == [users EXCEPT ![i].onboarded = TRUE]
              IN  /\ t \in Table /\ Active(t) = Active(users)
                  /\ t[i].onboarded /\ t[i].usecase = users[i].usecase
                  /\ Complete(users) /\ users[i].usecase # "none" => Complete(t)
<1>1. i \in Index /\ users \in [Index -> User] /\ users[i].active
  BY DEF SessionTypeOK, Table, Active
<1>2. users[i] \in [name : Names, pass_hash : Nat, usecase : UseCases \cup {"none"},
                    onboarded : BOOLEAN, active : {TRUE}]
  BY <1>1, Constants DEF User
<1>3. ASSUME NEW u \in UseCases
      PROVE  LET t == [users EXCEPT ![i].usecase = u]
             IN  /\ t \in Table /\ Active(t) = Active(users)
                 /\ t[i].usecase = u /\ (Complete(users) => Complete(t))
  <2> DEFINE t == [users EXCEPT ![i].usecase = u]
  <2>1. [users[i] EXCEPT !.usecase = u] \in User
    BY <1>2 DEF User
  <2>2. t \in Table /\ t[i].usecase = u /\ t[i].active /\ \A j \in Index \ {i} : t[j] = users[j]
    BY <1>1, <1>2, <2>1 DEF Table
  <2>3. Active(t) = Active(users)
    BY <1>1, <2>2 DEF Active
  <2>4. Complete(users) => Complete(t)
    BY <2>2, Constants DEF Complete
  <2> QED BY <2>2, <2>3, <2>4
<1>4. LET t == [users EXCEPT ![i].onboarded = TRUE]
      IN  /\ t \in Table /\ Active(t) = Active(users)
          /\ t[i].onboarded /\ t[i].usecase = users[i].usecase
          /\ Complete(users) /\ users[i].usecase # "none" => Complete(t)
  <2> DEFINE t == [users EXCEPT ![i].onboarded = TRUE]
  <2>1. [users[i] EXCEPT !.onboarded = TRUE] \in User
    BY <1>2 DEF User
  <2>2. /\ t \in Table /\ t[i].onboarded /\ t[i].usecase = users[i].usecase /\ t[i].active
        /\ \A j \in Index \ {i} : t[j] = users[j]
    BY <1>1, <1>2, <2>1 DEF Table
  <2>3. Active(t) = Active(users)
    BY <1>1, <2>2 DEF Active
  <2>4. Complete(users) /\ users[i].usecase # "none" => Complete(t)
    BY <2>2 DEF Complete
  <2> QED BY <2>2, <2>3, <2>4
<1> QED BY <1>3, <1>4

-----------------------------------------------------------------------------
(* Lines that leave the accounts alone *)

\* The parts of the invariant that a step which leaves accounts and boot
\* alone has to care about
Kept ==
    /\ mode' \in Mode /\ hidden' \in BOOLEAN /\ current' \in Index \cup {Nobody}
    /\ pending' \in [name : Names \cup {"none"}, password : Passwords \cup {"none"}]
    /\ mode' \in SignupModes => mode \in SignupModes \/ Active(users) = {}
    /\ ~Started /\ mode \in SignupModes => mode' \in SignupModes
    /\ mode' \in {"SIGNUP_PASS", "SIGNUP_CONFIRM"} => pending'.name \in Names
    /\ mode' \in {"ONBOARD_USECASE", "ONBOARD_PACKAGES", "SHELL", "EDIT"} /\ Started =>
         current' \in Active(users) \/ (current' = Nobody /\ pending'.name \in Long)
    /\ mode' = "ONBOARD_PACKAGES" => mode = mode' /\ current' = current
    /\ mode' \in {"SHELL", "EDIT"} => \/ mode \in {"SHELL", "EDIT"} /\ current' = current
                                      \/ mode = "LOGIN_PASS" /\ users[current'].onboarded /\ current' \in Active(users)
    /\ hidden' <=> mode' \in PasswordModes

LEMMA KeptIsEnough ==
    ASSUME SInv, UNCHANGED <<users, disk, failed, phase, present, sector, early>>, exposed' \in BOOLEAN, Kept
    PROVE  SInv'
<1> USE DEF SInv
<1>1. SessionTypeOK'
  BY DEF SessionTypeOK, Kept
<1>2. BootInv' /\ PendingInv'
  BY DEF BootInv, PendingInv, Kept, Started
<1>3. OnboardInv' /\ LoadInv' /\ SectorInv'
  BY DEF OnboardInv, LoadInv, Complete, SectorInv, Active
<1>5. SessionHasUser'
  BY DEF SessionHasUser, OnboardInv, Complete, Kept, Active, Started
<1>6. OneAccount'
  BY DEF OneAccount, Kept, SignupModes, Started
<1>7. HiddenInput'
  BY DEF HiddenInput, Kept
<1> QED BY <1>1, <1>2, <1>3, <1>5, <1>6, <1>7

LEMMA UnsavedLines ==
    ASSUME SInv, Running, UNCHANGED <<phase, present>>,
           \/ PromptAgain
           \/ \E name \in Names : SignupUser(name) \/ LoginUser(name)
           \/ \E password \in Passwords : SignupPass(password) \/ LoginPass(password)
           \/ Logout \/ Cls \/ Nano \/ EditDone
    PROVE  Kept /\ UNCHANGED <<users, disk, failed>> /\ ~(mode = "SIGNUP_CONFIRM" /\ mode' = "ONBOARD_USECASE")
<1> USE DEF SInv, Kept, Unsaved, SessionTypeOK, Mode, SignupModes, PasswordModes
<1>0. CASE PromptAgain
  BY <1>0 DEF PromptAgain, ShowSignup, ShowLogin, ShowOnboard, PendingInv, SessionHasUser
<1>1. ASSUME NEW name \in Names, SignupUser(name) PROVE Kept
  BY <1>1 DEF SignupUser, ShowSignup
<1>2. ASSUME NEW name \in Names, LoginUser(name) PROVE Kept
  BY <1>2 DEF LoginUser, ShowLogin
<1>3. ASSUME NEW password \in Passwords, SignupPass(password) PROVE Kept
  BY <1>3 DEF SignupPass, ShowSignup, PendingInv
<1>4. ASSUME NEW password \in Passwords, LoginPass(password) PROVE Kept
  <2>1. CASE /\ pending' = [pending EXCEPT !.name = "none"] /\ mode' = "LOGIN_USER"
             /\ ShowLogin("LOGIN_USER") /\ current' = current
    BY <1>4, <2>1 DEF LoginPass, ShowLogin
  <2>2. ASSUME NEW i \in Verify(pending.name, password), current' = i, AfterLogin(i), pending' = pending PROVE Kept
    <3>1. i \in Active(users) /\ i \in Index
      BY <2>2 DEF Verify, Find, Named, Active
    <3> QED BY <1>4, <2>2, <3>1 DEF LoginPass, AfterLogin, EnterShell, ShowOnboard
  <2> QED BY <1>4, <2>1, <2>2 DEF LoginPass
<1>5. CASE Logout
  BY <1>5 DEF Logout, ShowLogin
<1>6. CASE Cls
  BY <1>6 DEF Cls, StartMode, ShowStart, ShowLogin, ShowSignup, BootInv
<1>7. CASE Nano
  BY <1>7 DEF Nano, HiddenInput, SessionHasUser
<1>8. CASE EditDone
  BY <1>8 DEF EditDone, HiddenInput, SessionHasUser
<1>9. UNCHANGED <<users, disk, failed>> /\ ~(mode = "SIGNUP_CONFIRM" /\ mode' = "ONBOARD_USECASE")
  BY DEF PromptAgain, SignupUser, LoginUser, SignupPass, LoginPass, Logout, Cls, Nano, EditDone
<1> QED BY <1>0, <1>1, <1>2, <1>3, <1>4, <1>5, <1>6, <1>7, <1>8, <1>9

-----------------------------------------------------------------------------
(* Lines that change an account *)

LEMMA ConfirmStep ==
    ASSUME SInv, Running, NEW password \in Passwords, SignupConfirm(password),
           UNCHANGED <<phase, present, sector>>, exposed' \in BOOLEAN,
           early' = (early \/ (~Started /\ mode = "SIGNUP_CONFIRM" /\ mode' = "ONBOARD_USECASE"))
    PROVE  SInv'
<1>0. mode = "SIGNUP_CONFIRM" /\ early \in BOOLEAN
  BY DEF SignupConfirm, SInv, SessionTypeOK
<1>1. CASE \/ /\ mode' = "SIGNUP_PASS" /\ ShowSignup("SIGNUP_PASS")
              /\ pending' = [pending EXCEPT !.password = "none"]
              /\ Unsaved /\ current' = current
           \/ /\ mode' = "SIGNUP_USER" /\ ShowSignup("SIGNUP_USER")
              /\ Unsaved /\ UNCHANGED <<current, pending>>
  <2>1. Kept
    BY <1>0, <1>1 DEF Kept, Unsaved, ShowSignup, SInv, SessionTypeOK, Mode, SignupModes, PasswordModes, PendingInv
  <2>2. UNCHANGED <<users, disk, failed, phase, present, sector, early>>
    BY <1>0, <1>1 DEF Unsaved
  <2> QED BY <2>1, <2>2, KeptIsEnough
<1>2. ASSUME NEW i \in Index, password = pending.password, FreeEntry(i),
             Saved([users EXCEPT ![i] = NewUser(pending.name, password)]),
             current' \in Pointer(Find(users', pending.name)),
             pending' = [pending EXCEPT !.password = "none"],
             mode' = "ONBOARD_USECASE", ShowOnboard("ONBOARD_USECASE")
      PROVE  SInv'
  <2> DEFINE t == [users EXCEPT ![i] = NewUser(pending.name, password)]
  <2>1. pending.name \in Names
    BY <1>0 DEF SInv, PendingInv
  <2>2. /\ t \in Table /\ Active(t) = Active(users) \cup {i} /\ i \notin Active(users) /\ (Complete(users) => Complete(t))
        /\ t[i].name = Cut[pending.name]
    BY <1>2, <2>1, CreateFacts DEF SInv
  <2> HIDE DEF t
  <2>3. /\ users' = t /\ users' \in Table /\ disk' \in {t, disk} /\ disk' \in Table /\ failed' \in BOOLEAN
        /\ present /\ ~failed' => ~failed /\ disk' = t
    BY <1>2, <2>2, SavedFacts DEF SInv, t
  <2>4. /\ hidden' = FALSE /\ pending' \in [name : Names \cup {"none"}, password : Passwords \cup {"none"}]
        /\ pending'.name = pending.name
    BY <1>2 DEF ShowOnboard, SInv, SessionTypeOK
  <2>5. early' = (early \/ ~Started)
    BY <1>0, <1>2
  <2>6. current' \in Active(t) \/ (current' = Nobody /\ pending.name \in Long)
    <3>1. CASE Find(t, pending.name) = {}
      <4>1. Named(t, pending.name) = {}
        BY <2>2, <3>1, FindFacts
      <4>2. Cut[pending.name] # pending.name
        BY <2>2, <4>1 DEF Named
      <4> QED BY <1>2, <2>1, <2>3, <3>1, <4>2 DEF Pointer, Long
    <3>2. CASE Find(t, pending.name) # {}
      BY <1>2, <2>2, <2>3, <3>2, FindFacts DEF Pointer
    <3> QED BY <3>1, <3>2
  <2>7. SessionTypeOK'
    <3>1. current' \in Index \cup {Nobody}
      BY <2>2, <2>6, Constants
    <3> QED BY <1>2, <2>3, <2>4, <2>5, <3>1 DEF SInv, SessionTypeOK, Mode, Started
  <2>8. BootInv' /\ PendingInv' /\ SectorInv'
    BY <1>2, <2>5 DEF BootInv, PendingInv, SectorInv, SInv, Started, Active
  <2>9. OnboardInv'
    BY <2>2, <2>3, <2>5 DEF SInv, OnboardInv, Complete
  <2>10. LoadInv'
    BY <2>3, <2>5 DEF LoadInv, Started
  <2>13. SessionHasUser'
    BY <1>2, <2>3, <2>4, <2>6 DEF SessionHasUser
  <2>14. OneAccount'
    <3> SUFFICES ASSUME ~early' PROVE /\ Cardinality(Active(users')) <= 1
                                      /\ Cardinality(Active(disk')) <= 1
      BY <1>2 DEF OneAccount
    <3>1. Active(users) = {} /\ Cardinality(Active(disk)) <= 1
      BY <1>0, <2>5 DEF SInv, OneAccount
    <3>2. Active(t) = {i}
      BY <2>2, <3>1
    <3>3. Cardinality({i}) = 1
      BY FS_Singleton
    <3>4. Cardinality(Active(t)) <= 1
      BY <3>2, <3>3
    <3> QED BY <2>3, <3>1, <3>4
  <2>15. HiddenInput'
    BY <1>2, <2>4 DEF HiddenInput, PasswordModes
  <2> QED BY <2>7, <2>8, <2>9, <2>10, <2>13, <2>14, <2>15 DEF SInv
<1> QED BY <1>1, <1>2 DEF SignupConfirm

\* set_usecase and complete_onboarding, with a user or without
LEMMA OnboardStep ==
    ASSUME SInv, Running, ChoosePackages \/ \E usecase \in UseCases : ChooseUsecase(usecase),
           UNCHANGED <<phase, present, sector, early>>, exposed' \in BOOLEAN
    PROVE  SInv'
<1>0. mode \in {"ONBOARD_USECASE", "ONBOARD_PACKAGES"} /\ UNCHANGED <<current, pending>>
  BY DEF ChoosePackages, ChooseUsecase
<1>1. ~early => Started
  BY <1>0 DEF SInv, BootInv, SignupModes, Running
<1>2. mode' \in {"ONBOARD_PACKAGES", "SHELL"} /\ hidden' = FALSE
  BY DEF ChoosePackages, ChooseUsecase, EnterShell, ShowOnboard
<1>3. CASE current = Nobody
  <2>1. UNCHANGED <<users, disk, failed>>
    BY <1>3 DEF ChoosePackages, ChooseUsecase, SetUsecase, CompleteOnboarding, Unsaved
  <2> USE DEF SInv
  <2>2. SessionTypeOK' /\ BootInv' /\ PendingInv'
    BY <1>0, <1>1, <1>2, <2>1 DEF SessionTypeOK, BootInv, PendingInv, Mode, Started, Active
  <2>3. OnboardInv' /\ LoadInv' /\ SectorInv'
    BY <2>1 DEF OnboardInv, LoadInv, SectorInv, Complete, Active
  <2>4. SessionHasUser' /\ OneAccount' /\ HiddenInput'
    BY <1>0, <1>2, <1>3, <2>1 DEF SessionHasUser, OneAccount, HiddenInput, PasswordModes, Started, Active
  <2> QED BY <2>2, <2>3, <2>4
<1>4. ASSUME NEW t \in Table, Saved(t), Active(t) = Active(users), current # Nobody,
             ~early => Complete(t),
             ~early => t[current].usecase # "none",
             ~early /\ mode' = "SHELL" => t[current].onboarded
      PROVE  SInv'
  <2>1. /\ users' = t /\ users' \in Table /\ disk' \in {t, disk} /\ disk' \in Table /\ failed' \in BOOLEAN
        /\ present /\ ~failed' => ~failed /\ disk' = t
    BY <1>4, SavedFacts DEF SInv
  <2>2. SessionTypeOK'
    BY <1>0, <1>2, <2>1 DEF SInv, SessionTypeOK, Mode
  <2>3. BootInv' /\ PendingInv'
    BY <1>1, <1>2 DEF BootInv, PendingInv, Started
  <2>4. OnboardInv' /\ SectorInv'
    BY <1>4, <2>1 DEF SInv, OnboardInv, SectorInv, Complete, Active
  <2>5. LoadInv'
    BY <1>1, <2>1 DEF LoadInv, Started
  <2>6. SessionHasUser'
    BY <1>0, <1>2, <1>4, <2>1 DEF SInv, SessionHasUser, Started
  <2>7. OneAccount'
    BY <1>2, <1>4, <2>1 DEF SInv, OneAccount
  <2>8. HiddenInput'
    BY <1>2 DEF HiddenInput, PasswordModes
  <2> QED BY <2>2, <2>3, <2>4, <2>5, <2>6, <2>7, <2>8 DEF SInv
<1>5. CASE current # Nobody /\ current \notin Active(users)
  <2>1. Saved(users)
    BY <1>5 DEF ChoosePackages, ChooseUsecase, SetUsecase, CompleteOnboarding
  <2>2. early /\ users \in Table
    BY <1>0, <1>1, <1>5 DEF SInv, SessionHasUser, SessionTypeOK
  <2> QED BY <1>4, <1>5, <2>1, <2>2
<1>6. CASE current # Nobody /\ current \in Active(users)
  <2>3. ASSUME NEW usecase \in UseCases, ChooseUsecase(usecase) PROVE SInv'
    <3>1. Saved([users EXCEPT ![current].usecase = usecase]) /\ mode' = "ONBOARD_PACKAGES"
      BY <1>6, <2>3 DEF ChooseUsecase, SetUsecase
    <3> DEFINE t == [users EXCEPT ![current].usecase = usecase]
    <3>2. t \in Table /\ Active(t) = Active(users) /\ t[current].usecase = usecase /\ (Complete(users) => Complete(t))
      BY <1>6, ChangeFacts DEF SInv
    <3> HIDE DEF t
    <3> QED BY <1>4, <1>6, <3>1, <3>2, Constants DEF SInv, OnboardInv, t
  <2>4. CASE ChoosePackages
    <3>1. Saved([users EXCEPT ![current].onboarded = TRUE]) /\ mode = "ONBOARD_PACKAGES"
      BY <1>6, <2>4 DEF ChoosePackages, CompleteOnboarding
    <3> DEFINE t == [users EXCEPT ![current].onboarded = TRUE]
    <3>2. /\ t \in Table /\ Active(t) = Active(users) /\ t[current].onboarded /\ t[current].usecase = users[current].usecase
          /\ Complete(users) /\ users[current].usecase # "none" => Complete(t)
      BY <1>6, ChangeFacts DEF SInv
    <3>3. ~early => users[current].usecase # "none"
      BY <1>1, <1>6, <3>1 DEF SInv, SessionHasUser
    <3> HIDE DEF t
    <3> QED BY <1>4, <1>6, <3>1, <3>2, <3>3 DEF SInv, OnboardInv, t
  <2> QED BY <2>3, <2>4
<1> QED BY <1>3, <1>5, <1>6

-----------------------------------------------------------------------------
(* The boot and its end *)

LEMMA BootStep == ASSUME SInv, SessionBoot PROVE SInv'
<1>0. Active(NoAccounts) = {} /\ NoAccounts \in Table /\ Cardinality({}) = 0 /\ Complete(NoAccounts)
  BY Constants, FS_EmptySet DEF Complete, NoAccounts
<1> USE DEF Started
<1>1. CASE DiskInit
  <2> USE <1>1 DEF DiskInit, SInv
  <2>1. SessionTypeOK' /\ BootInv' /\ PendingInv' /\ LoadInv' /\ OnboardInv' /\ SectorInv'
    BY DEF SessionTypeOK, BootInv, PendingInv, OnboardInv, LoadInv, SectorInv, Phase
  <2>2. SessionHasUser' /\ OneAccount' /\ HiddenInput'
    BY DEF SessionHasUser, OneAccount, HiddenInput
  <2> QED BY <2>1, <2>2
<1>2. CASE UsersClear \/ UsersForget
  <2>1. /\ phase \in {"disk", "clearing"} /\ phase' \in {"clearing", "cleared"} /\ users' \in {users, NoAccounts}
        /\ current' \in {current, Nobody}
        /\ UNCHANGED <<disk, mode, pending, hidden, present, sector, failed, early, exposed>>
    BY <1>2 DEF UsersClear, UsersForget
  <2> USE <1>0, <2>1 DEF SInv
  <2>2. SessionTypeOK' /\ BootInv' /\ PendingInv' /\ LoadInv'
    BY DEF SessionTypeOK, BootInv, PendingInv, LoadInv, Phase
  <2>3. OnboardInv' /\ SectorInv' /\ SessionHasUser' /\ OneAccount' /\ HiddenInput'
    BY DEF OnboardInv, SectorInv, SessionHasUser, OneAccount, HiddenInput
  <2> QED BY <2>2, <2>3
<1>3. CASE UsersRead
  <2>1. /\ phase = "cleared" /\ phase' = "read" /\ failed' \in BOOLEAN /\ sector' \in {disk, NoAccounts}
        /\ UNCHANGED <<users, disk, current, mode, pending, hidden, present, early, exposed>>
        /\ present /\ ~failed' => sector' = disk
    BY <1>3 DEF UsersRead, ReadSector, SInv, SessionTypeOK
  <2> USE <1>0, <2>1 DEF SInv
  <2>2. SessionTypeOK' /\ BootInv' /\ PendingInv' /\ LoadInv'
    BY DEF SessionTypeOK, BootInv, PendingInv, LoadInv, Phase
  <2>3. OnboardInv' /\ SectorInv' /\ SessionHasUser' /\ OneAccount' /\ HiddenInput'
    BY DEF OnboardInv, SectorInv, SessionHasUser, OneAccount, HiddenInput
  <2> QED BY <2>2, <2>3
<1>4. CASE UsersCopy
  <2>1. /\ phase = "read" /\ phase' = "loaded" /\ sector' = NoAccounts
        /\ UNCHANGED <<disk, current, mode, pending, hidden, present, failed, early, exposed>>
        /\ users' = sector \/ (users' = users /\ Active(sector) = {})
    BY <1>4 DEF UsersCopy
  <2> USE <1>0, <2>1 DEF SInv
  <2>2. SessionTypeOK' /\ BootInv' /\ PendingInv'
    BY DEF SessionTypeOK, BootInv, PendingInv, Phase
  <2>3. LoadInv'
    <3>1. ASSUME present, ~failed, ~early PROVE users' = disk
      <4>1. sector = disk /\ Active(users) = {}
        BY <3>1 DEF LoadInv, BootInv
      <4>2. Active(sector) = {} => users = sector
        BY <4>1, EmptyTable DEF SessionTypeOK
      <4> QED BY <4>1, <4>2
    <3> QED BY <3>1 DEF LoadInv
  <2>4. OnboardInv' /\ SectorInv' /\ SessionHasUser' /\ OneAccount' /\ HiddenInput'
    BY DEF OnboardInv, SectorInv, SessionHasUser, OneAccount, HiddenInput
  <2> QED BY <2>2, <2>3, <2>4
<1>5. CASE ShellLooks
  <2> USE <1>5 DEF ShellLooks, SInv
  <2>1. SessionTypeOK' /\ BootInv' /\ PendingInv' /\ LoadInv' /\ OnboardInv' /\ SectorInv'
    BY DEF SessionTypeOK, BootInv, PendingInv, OnboardInv, LoadInv, SectorInv, Phase, StartMode
  <2>2. SessionHasUser' /\ OneAccount' /\ HiddenInput'
    BY DEF SessionHasUser, OneAccount, HiddenInput
  <2> QED BY <2>1, <2>2
<1>6. CASE ShellStarts
  <2> USE <1>6 DEF ShellStarts, SInv
  <2>1. SessionTypeOK' /\ BootInv' /\ PendingInv' /\ LoadInv' /\ OnboardInv' /\ SectorInv'
    BY DEF SessionTypeOK, BootInv, PendingInv, OnboardInv, LoadInv, SectorInv, Phase, Mode
  <2>2. SessionHasUser' /\ OneAccount' /\ HiddenInput'
    BY DEF SessionHasUser, OneAccount, HiddenInput, BootInv, PasswordModes
  <2> QED BY <2>1, <2>2
<1>7. CASE ShellPrompts
  <2> USE <1>7 DEF ShellPrompts, SInv
  <2>1. SessionTypeOK' /\ BootInv' /\ PendingInv' /\ LoadInv' /\ OnboardInv' /\ SectorInv'
    <3>a. (mode \in PasswordModes) \in BOOLEAN
      OBVIOUS
    <3>b. exposed' \in BOOLEAN
      BY <3>a
    <3>1. exposed' \in BOOLEAN /\ hidden' \in BOOLEAN /\ phase' \in Phase
      BY <3>b DEF Phase
    <3>2. SessionTypeOK'
      BY <3>1 DEF SessionTypeOK
    <3> QED BY <3>2 DEF BootInv, PendingInv, OnboardInv, LoadInv, SectorInv
  <2>2. SessionHasUser' /\ OneAccount' /\ HiddenInput'
    BY DEF SessionHasUser, OneAccount, HiddenInput
  <2> QED BY <2>1, <2>2
<1> QED BY <1>1, <1>2, <1>3, <1>4, <1>5, <1>6, <1>7 DEF SessionBoot

LEMMA StopStep ==
    ASSUME SInv, PackagesFault \/ Halt \/ PowerFails
    PROVE  SInv'
<1> USE DEF SInv, Started
<1>1. CASE PackagesFault \/ Halt
  <2>1. /\ phase' = "halted" /\ UNCHANGED <<users, disk, current, mode, pending, hidden, present, sector, failed, early, exposed>>
        /\ mode \in {"ONBOARD_PACKAGES", "SHELL"}
    BY <1>1 DEF PackagesFault, Halt
  <2>2. SessionTypeOK' /\ BootInv' /\ PendingInv' /\ LoadInv' /\ OnboardInv' /\ SectorInv'
    BY <2>1 DEF SessionTypeOK, BootInv, PendingInv, OnboardInv, LoadInv, SectorInv, Phase
  <2>3. SessionHasUser' /\ OneAccount' /\ HiddenInput'
    BY <2>1 DEF SessionHasUser, OneAccount, HiddenInput
  <2> QED BY <2>2, <2>3
<1>2. CASE PowerFails
  <2>0. Active(NoAccounts) = {} /\ NoAccounts \in Table /\ Cardinality({}) = 0 /\ Complete(NoAccounts)
    BY Constants, FS_EmptySet DEF Complete, NoAccounts
  <2> USE <1>2, <2>0 DEF PowerFails, PowerOn
  <2>1. SessionTypeOK'
    BY DEF SessionTypeOK, Phase, Mode, NothingPending
  <2>3. BootInv' /\ PendingInv' /\ LoadInv'
    BY DEF BootInv, PendingInv, LoadInv, SignupModes
  <2>4. OnboardInv' /\ SectorInv'
    BY DEF OnboardInv, SectorInv
  <2>2. SessionHasUser' /\ OneAccount' /\ HiddenInput'
    BY DEF SessionHasUser, OneAccount, HiddenInput, PasswordModes
  <2> QED BY <2>1, <2>2, <2>3, <2>4
<1> QED BY <1>1, <1>2

LEMMA SInit == Init => SInv
<1> SUFFICES ASSUME Init PROVE SInv
  OBVIOUS
<1>0. Active(NoAccounts) = {} /\ NoAccounts \in Table /\ Cardinality({}) = 0 /\ Complete(NoAccounts)
  BY Constants, FS_EmptySet DEF Complete, NoAccounts
<1> USE <1>0 DEF Init, SessionInit, Started
<1>1. SessionTypeOK
  BY DEF SessionTypeOK, Phase, Mode, NothingPending
<1>3. BootInv /\ PendingInv /\ LoadInv
  BY DEF BootInv, PendingInv, LoadInv, SignupModes
<1>4. OnboardInv /\ SectorInv
  BY DEF OnboardInv, SectorInv
<1>2. SessionHasUser /\ OneAccount /\ HiddenInput
  BY DEF SessionHasUser, OneAccount, HiddenInput, PasswordModes
<1> QED BY <1>1, <1>2, <1>3, <1>4 DEF SInv

LEMMA SInvStep == SInv /\ [Next]_vars => SInv'
<1> SUFFICES ASSUME SInv, [Next]_vars PROVE SInv'
  OBVIOUS
<1>1. ASSUME Running, Line PROVE SInv'
  <2>0. /\ UNCHANGED <<phase, present, sector>> /\ early \in BOOLEAN /\ exposed' \in BOOLEAN
        /\ early' = (early \/ (~Started /\ mode = "SIGNUP_CONFIRM" /\ mode' = "ONBOARD_USECASE"))
    BY <1>1 DEF Line, bootVars, SInv, SessionTypeOK
  <2>1. ASSUME NEW password \in Passwords, SignupConfirm(password) PROVE SInv'
    BY <1>1, <2>0, <2>1, ConfirmStep
  <2>2. CASE ChoosePackages \/ \E usecase \in UseCases : ChooseUsecase(usecase)
    <3>1. early' = early
      BY <2>0, <2>2 DEF ChoosePackages, ChooseUsecase
    <3> QED BY <1>1, <2>0, <2>2, <3>1, OnboardStep
  <2>3. CASE \/ PromptAgain
             \/ \E name \in Names : SignupUser(name) \/ LoginUser(name)
             \/ \E password \in Passwords : SignupPass(password) \/ LoginPass(password)
             \/ Logout \/ Cls \/ Nano
    <3>1. Kept /\ UNCHANGED <<users, disk, failed>> /\ ~(mode = "SIGNUP_CONFIRM" /\ mode' = "ONBOARD_USECASE")
      BY <1>1, <2>0, <2>3, UnsavedLines
    <3>2. early' = early
      BY <2>0, <3>1
    <3> QED BY <2>0, <3>1, <3>2, KeptIsEnough
  <2> QED BY <1>1, <2>1, <2>2, <2>3 DEF Line, Typed
<1>2. ASSUME Running, EditorKey PROVE SInv'
  <2>1. UNCHANGED <<phase, present, sector, early, exposed>> /\ EditDone /\ exposed' \in BOOLEAN
    BY <1>2 DEF EditorKey, bootVars, SInv, SessionTypeOK
  <2> QED BY <1>2, <2>1, UnsavedLines, KeptIsEnough
<1>3. CASE UNCHANGED sessionVars
  <2> USE <1>3 DEF SInv, sessionVars, bootVars
  <2>1. SessionTypeOK' /\ BootInv' /\ PendingInv' /\ LoadInv' /\ OnboardInv' /\ SectorInv'
    BY DEF SessionTypeOK, BootInv, PendingInv, OnboardInv, LoadInv, SectorInv, Started
  <2>2. SessionHasUser' /\ OneAccount' /\ HiddenInput'
    BY DEF SessionHasUser, OneAccount, HiddenInput, Started
  <2> QED BY <2>1, <2>2
<1> QED BY <1>1, <1>2, <1>3, SessionView, BootStep, StopStep DEF SessionStep

-----------------------------------------------------------------------------

\* The invariant of the user table, its copy on disk and the shell's modes
THEOREM SessionInvariance == Spec => []SInv
BY SInit, SInvStep, PTL DEF Spec

\* From the time shell_init has set the mode, Users::current() is an account
\* wherever handle_line dereferences it, except in the session of a sign-up
\* whose name was cut, and no account is in the shell without onboarding.
THEOREM UserWhenUp == Spec => []SessionHasUser
<1>1. SInv => SessionHasUser
  BY DEF SInv
<1> QED BY <1>1, SessionInvariance, PTL

\* save_to_disk after every change keeps the disk current, as long as it works
\* and no account was created while load_from_disk was under way.
THEOREM NothingIsLost == Spec => []DiskIsCurrent
<1>1. SInv => DiskIsCurrent
  BY DEF SInv, LoadInv, DiskIsCurrent, Started
<1> QED BY <1>1, SessionInvariance, PTL

\* Sign-up creates one account at most, over reboots and failing disks.
THEOREM SingleAccount == Spec => []OneAccount
<1>1. SInv => OneAccount
  BY DEF SInv
<1> QED BY <1>1, SessionInvariance, PTL

\* password_mode is on while a password is asked for and off otherwise, but
\* for what is typed while shell_init is between its mode and its prompt.
THEOREM PasswordsAreHidden == Spec => []HiddenInput
<1>1. SInv => HiddenInput
  BY DEF SInv
<1> QED BY <1>1, SessionInvariance, PTL

-----------------------------------------------------------------------------
(* The account store *)

\* What the sign-up is about to store was long enough, and nobody is asked
\* for a use case whose onboarding is complete.
OnboardModes == {"ONBOARD_USECASE", "ONBOARD_PACKAGES"}
LongInv == mode = "SIGNUP_CONFIRM" => pending.password \in Passwords \ Short
OnceInv == ~early /\ mode \in OnboardModes /\ current # Nobody => ~users[current].onboarded
StoreInv == LongInv /\ OnceInv

LEMMA StoreInit == Init => StoreInv
BY DEF Init, SessionInit, StoreInv, LongInv, OnceInv, OnboardModes

\* Onboarding with a user, as long as no account was created during boot: it
\* is the only account, and its entry changes in one field.
LEMMA OnboardFacts ==
    ASSUME SInv, OnceInv, Running, ~early, mode \in OnboardModes, current # Nobody
    PROVE  /\ Started /\ current \in Active(users)
           /\ Active(users) = {current} /\ ~users[current].onboarded
<1>1. Started
  BY DEF SInv, BootInv, SignupModes, OnboardModes, Running
<1>2. current \in Active(users)
  BY <1>1 DEF SInv, SessionHasUser, OnboardModes
<1>3. ~users[current].onboarded
  BY DEF OnceInv
<1>4. IsFiniteSet(Active(users)) /\ Cardinality(Active(users)) <= 1
  <2>1. Active(users) \subseteq Index
    BY DEF Active
  <2> QED BY <2>1, Constants, FS_Subset DEF SInv, OneAccount
<1>5. ASSUME NEW i \in Active(users), i # current PROVE FALSE
  <2>1. {i, current} \subseteq Active(users)
    BY <1>2, <1>5
  <2>2. Cardinality({i, current}) = 2
    <3>1. IsFiniteSet({current}) /\ Cardinality({current}) = 1
      BY FS_Singleton
    <3>2. {i, current} = {current} \cup {i} /\ i \notin {current}
      BY <1>5
    <3> QED BY <3>1, <3>2, FS_AddElement
  <2>3. Cardinality({i, current}) <= Cardinality(Active(users))
    BY <1>4, <2>1, FS_Subset
  <2>4. Cardinality(Active(users)) \in Nat
    BY <1>4, FS_CardinalityType
  <2> QED BY <1>4, <2>2, <2>3, <2>4
<1> QED BY <1>1, <1>2, <1>3, <1>5

\* A change of one field, as it is stored
LEMMA StoredFacts ==
    ASSUME SessionTypeOK, NEW i \in Active(users)
    PROVE  /\ Stored(users[i]).usecase \in UseCases \cup {"none"}
           /\ Stored(users[i]).usecase = users[i].usecase
           /\ Stored(users[i]).onboarded = users[i].onboarded
           /\ \A u \in UseCases : LET t == [users EXCEPT ![i].usecase = u]
                                  IN  /\ Stored(t[i]) = [Stored(users[i]) EXCEPT !.usecase = u]
                                      /\ t[i].onboarded = users[i].onboarded
           /\ LET t == [users EXCEPT ![i].onboarded = TRUE]
              IN  Stored(t[i]) = [Stored(users[i]) EXCEPT !.onboarded = TRUE]
<1>1. i \in Index /\ users \in [Index -> User] /\ users[i].active
  BY DEF SessionTypeOK, Table, Active
<1>2. users[i] \in [name : Names, pass_hash : Nat, usecase : UseCases \cup {"none"},
                    onboarded : BOOLEAN, active : {TRUE}]
  BY <1>1, Constants DEF User
<1> DEFINE r == users[i]
<1>3. Stored(r) = [name |-> r.name, secret |-> r.pass_hash, usecase |-> r.usecase, onboarded |-> r.onboarded]
  BY DEF Stored
<1>4. ASSUME NEW u \in UseCases
      PROVE  LET t == [users EXCEPT ![i].usecase = u]
             IN  /\ Stored(t[i]) = [Stored(r) EXCEPT !.usecase = u]
                 /\ t[i].onboarded = r.onboarded
  <2> DEFINE t == [users EXCEPT ![i].usecase = u]
  <2>1. t[i] = [r EXCEPT !.usecase = u]
    BY <1>1
  <2>2. t[i].name = r.name /\ t[i].pass_hash = r.pass_hash /\ t[i].usecase = u /\ t[i].onboarded = r.onboarded
    BY <1>2, <2>1
  <2> QED BY <1>3, <2>2 DEF Stored
<1>5. LET t == [users EXCEPT ![i].onboarded = TRUE]
      IN  Stored(t[i]) = [Stored(r) EXCEPT !.onboarded = TRUE]
  <2> DEFINE t == [users EXCEPT ![i].onboarded = TRUE]
  <2>1. t[i] = [r EXCEPT !.onboarded = TRUE]
    BY <1>1
  <2>2. t[i].name = r.name /\ t[i].pass_hash = r.pass_hash /\ t[i].usecase = r.usecase /\ t[i].onboarded = TRUE
    BY <1>2, <2>1
  <2>3. Stored(t[i]) = [name |-> r.name, secret |-> r.pass_hash, usecase |-> r.usecase, onboarded |-> TRUE]
    BY <2>2, Zenon DEF Stored
  <2>4. ASSUME NEW b PROVE [Stored(r) EXCEPT !.onboarded = b]
                             = [name |-> r.name, secret |-> r.pass_hash, usecase |-> r.usecase, onboarded |-> b]
    <3> HIDE DEF r
    <3> QED BY <1>3
  <2> QED BY <2>3, <2>4, Zenon
<1>6. Stored(r).usecase = r.usecase /\ Stored(r).onboarded = r.onboarded
  <2> HIDE DEF r
  <2> QED BY <1>3
<1>7. r.usecase \in UseCases \cup {"none"}
  BY <1>2
<1> QED BY <1>4, <1>5, <1>6, <1>7

LEMMA StoreInvStep ==
    ASSUME SInv, StoreInv, SessionStep
    PROVE  StoreInv'
<1> USE DEF StoreInv, LongInv, OnceInv, OnboardModes
<1>0. ASSUME PromptAgain, early' = early PROVE StoreInv'
  BY <1>0 DEF PromptAgain, Unsaved
<1>1. ASSUME NEW name \in Names, SignupUser(name) \/ LoginUser(name) PROVE StoreInv'
  BY <1>1 DEF SignupUser, LoginUser
<1>2. ASSUME NEW password \in Passwords, SignupPass(password) PROVE StoreInv'
  BY <1>2 DEF SignupPass, SInv, SessionTypeOK
<1>3. ASSUME NEW password \in Passwords, SignupConfirm(password), Running, Line PROVE StoreInv'
  <2>1. CASE mode' # "ONBOARD_USECASE"
    BY <1>3, <2>1 DEF SignupConfirm
  <2>2. ASSUME mode' = "ONBOARD_USECASE", ~early', current' # Nobody PROVE ~users'[current'].onboarded
    <3>0. mode = "SIGNUP_CONFIRM"
      BY <1>3 DEF SignupConfirm
    <3>1. PICK i \in Index : /\ password = pending.password /\ FreeEntry(i)
                             /\ current' \in Pointer(Find(users', pending.name))
                             /\ Saved([users EXCEPT ![i] = NewUser(pending.name, password)])
      BY <1>3, <2>2 DEF SignupConfirm
    <3>2. pending.name \in Names
      BY <3>0 DEF SInv, PendingInv
    <3>3. Started /\ ~early
      BY <1>3, <2>2, <3>0 DEF Line, SInv, SessionTypeOK
    <3>4. Active(users) = {}
      BY <3>0, <3>3 DEF SInv, OneAccount
    <3> DEFINE t == [users EXCEPT ![i] = NewUser(pending.name, password)]
    <3>5. t \in Table /\ Active(t) = {i} /\ ~t[i].onboarded
      BY <3>1, <3>2, <3>4, CreateFacts DEF SInv
    <3> HIDE DEF t
    <3>6. users' = t
      BY <3>1 DEF Saved, t
    <3>7. current' \in Active(t)
      BY <2>2, <3>1, <3>5, <3>6, FindFacts DEF Pointer
    <3> QED BY <3>5, <3>6, <3>7
  <2> QED BY <2>1, <2>2
<1>4. ASSUME NEW password \in Passwords, LoginPass(password) PROVE StoreInv'
  BY <1>4 DEF LoginPass, AfterLogin, EnterShell, Unsaved
<1>5. ASSUME NEW usecase \in UseCases, ChooseUsecase(usecase), Running, Line PROVE StoreInv'
  <2>1. mode = "ONBOARD_USECASE" /\ mode' = "ONBOARD_PACKAGES" /\ current' = current
    BY <1>5 DEF ChooseUsecase
  <2>2. ASSUME ~early', current # Nobody PROVE ~users'[current'].onboarded
    <3>1. ~early
      BY <1>5, <2>2 DEF Line, SInv, SessionTypeOK
    <3>2. current \in Active(users) /\ ~users[current].onboarded
      BY <1>5, <2>1, <2>2, <3>1, OnboardFacts
    <3>3. users' = [users EXCEPT ![current].usecase = usecase]
      BY <1>5, <2>2, <3>2 DEF ChooseUsecase, SetUsecase, Saved
    <3> QED BY <2>1, <3>2, <3>3, StoredFacts DEF SInv
  <2> QED BY <2>1, <2>2
<1>6. ASSUME ChoosePackages \/ Logout \/ Cls \/ Nano \/ EditDone PROVE StoreInv'
  BY <1>6 DEF ChoosePackages, EnterShell, Logout, Cls, StartMode, Nano, EditDone
<1>7. ASSUME Running, Line PROVE StoreInv'
  <2>1. CASE PromptAgain
    BY <1>0, <1>7, <2>1 DEF Line, PromptAgain, SInv, SessionTypeOK
  <2> QED BY <1>1, <1>2, <1>3, <1>4, <1>5, <1>6, <1>7, <2>1 DEF Line, Typed
<1>8. CASE PackagesFault \/ Halt \/ UNCHANGED sessionVars
  BY <1>8 DEF PackagesFault, Halt, sessionVars
<1>9. CASE SessionBoot
  <2>1. CASE ShellStarts
    BY <2>1 DEF ShellStarts
  <2>2. CASE ShellPrompts
    BY <2>2 DEF ShellPrompts
  <2>3. CASE DiskInit \/ UsersClear \/ UsersForget \/ UsersRead \/ UsersCopy \/ ShellLooks
    <3>1. UNCHANGED <<mode, pending, early>>
      BY <2>3 DEF DiskInit, UsersClear, UsersForget, UsersRead, UsersCopy, ShellLooks
    <3>2. phase # "halted" /\ ~Started
      BY <2>3 DEF DiskInit, UsersClear, UsersForget, UsersRead, UsersCopy, ShellLooks, Started
    <3> QED BY <3>1, <3>2 DEF SInv, BootInv, SignupModes
  <2> QED BY <1>9, <2>1, <2>2, <2>3 DEF SessionBoot
<1>10. CASE PowerFails
  BY <1>10 DEF PowerFails, PowerOn
<1> QED BY <1>6, <1>7, <1>8, <1>9, <1>10 DEF SessionStep, EditorKey

\* A change that is saved to a disk that works, with the shell up: memory and
\* disk were the same, and are again.
LEMMA SavedToStore ==
    ASSUME SInv, NEW t \in Table, Saved(t), Started, ~failed', ~early,
           \* what the change does, if the disk has the table of memory
           users = disk /\ disk' = t => [Store!Next]_<<Accounts, Intact>>,
           early' = FALSE
    PROVE  [Store!Next]_<<Accounts, Intact>>
<1>1. CASE present
  BY <1>1, SavedFacts DEF SInv, LoadInv, Started
<1>2. CASE ~present
  BY <1>2 DEF Saved, WriteSector, Accounts, Intact, SInv, SessionTypeOK
<1> QED BY <1>1, <1>2

LEMMA StoreStep ==
    ASSUME SInv, StoreInv, SInv', SessionStep
    PROVE  [Store!Next]_<<Accounts, Intact>>
<1>1. CASE failed' \/ early'
  BY <1>1 DEF Store!Next, Store!Breaks, Intact, SInv, SessionTypeOK
<1>2. CASE UNCHANGED <<disk, failed, early>>
  BY <1>2 DEF Accounts, Intact, Active
<1>3. ASSUME ~failed', ~early', Running, Line PROVE [Store!Next]_<<Accounts, Intact>>
  <2>0. early' = early
    BY <1>3 DEF Line, SInv, SessionTypeOK
  <2>1. UNCHANGED bootVars /\ ~early /\ early' = FALSE
        /\ early' = (early \/ (~Started /\ mode = "SIGNUP_CONFIRM" /\ mode' = "ONBOARD_USECASE"))
    BY <1>3 DEF Line, bootVars, SInv, SessionTypeOK
  <2>2. ASSUME NEW t \in Table, Saved(t) PROVE Intact /\ Intact' = TRUE
    BY <1>3, <2>1, <2>2 DEF Intact, Saved, SInv, SessionTypeOK
  <2>3. ASSUME NEW password \in Passwords, NEW i \in Index, SignupConfirm(password),
               password = pending.password, FreeEntry(i), mode' = "ONBOARD_USECASE",
               Saved([users EXCEPT ![i] = NewUser(pending.name, password)])
        PROVE  [Store!Next]_<<Accounts, Intact>>
    <3> DEFINE t == [users EXCEPT ![i] = NewUser(pending.name, password)]
    <3>1. mode = "SIGNUP_CONFIRM" /\ pending.name \in Names /\ password \in Passwords \ Short
      BY <2>3 DEF SignupConfirm, SInv, PendingInv, StoreInv, LongInv
    <3>2. Started /\ Active(users) = {}
      BY <2>1, <2>3, <3>1 DEF SInv, OneAccount
    <3>3. t \in Table /\ Active(t) = {i}
      BY <2>3, <3>1, <3>2, CreateFacts DEF SInv
    <3>4. t[i] = NewUser(pending.name, password)
      BY DEF SInv, SessionTypeOK, Table
    <3> HIDE DEF t
    <3>5. Saved(t)
      BY <2>3 DEF t
    <3>6. ASSUME users = disk, disk' = t PROVE Store!Next
      <4>1. Accounts = {}
        BY <3>2, <3>6 DEF Accounts
      <4>2. Accounts' = {Stored(NewUser(pending.name, password))}
        BY <3>3, <3>4, <3>6 DEF Accounts
      <4>3. Stored(NewUser(pending.name, password))
              = [name |-> Cut[pending.name], secret |-> Hash[password], usecase |-> "none", onboarded |-> FALSE]
        BY DEF Stored, NewUser
      <4>4. Store!Register
        BY <3>1, <4>1, <4>2, <4>3 DEF Store!Register
      <4> QED BY <2>2, <3>3, <3>5, <4>4 DEF Store!Next, Store!Works
    <3> QED BY <1>3, <2>1, <3>2, <3>3, <3>5, <3>6, SavedToStore
  <2>4. ASSUME mode \in OnboardModes, current # Nobody, NEW t \in Table, Saved(t), Active(t) = Active(users),
               Store!Becomes(Stored(users[current]), Stored(t[current])) =>
                   Store!Choose \/ Store!Complete
        PROVE  [Store!Next]_<<Accounts, Intact>>
    <3>1. Started /\ Active(users) = {current} /\ ~users[current].onboarded /\ current \in Active(users)
      BY <1>3, <2>1, <2>4, OnboardFacts DEF StoreInv
    <3>2. ASSUME users = disk, disk' = t PROVE Store!Next
      <4>1. Accounts = {Stored(users[current])}
        BY <3>1, <3>2 DEF Accounts
      <4>2. Accounts' = {Stored(t[current])}
        BY <2>4, <3>1, <3>2 DEF Accounts
      <4>3. ~Stored(users[current]).onboarded
        BY <3>1, StoredFacts DEF SInv
      <4>4. Store!Becomes(Stored(users[current]), Stored(t[current]))
        BY <4>1, <4>2, <4>3 DEF Store!Becomes
      <4> QED BY <2>2, <2>4, <4>4 DEF Store!Next, Store!Works
    <3> QED BY <1>3, <2>1, <2>4, <3>1, <3>2, SavedToStore
  <2>5. ASSUME NEW usecase \in UseCases, ChooseUsecase(usecase) PROVE [Store!Next]_<<Accounts, Intact>>
    <3> DEFINE t == [users EXCEPT ![current].usecase = usecase]
    <3>1. mode \in OnboardModes
      BY <2>5 DEF ChooseUsecase, OnboardModes
    <3>0. CASE current = Nobody
      BY <1>2, <2>0, <2>5, <3>0 DEF ChooseUsecase, SetUsecase, Unsaved
    <3> SUFFICES ASSUME current # Nobody PROVE [Store!Next]_<<Accounts, Intact>>
      BY <3>0
    <3>2. current \in Active(users)
      BY <1>3, <2>1, <3>1, OnboardFacts DEF StoreInv
    <3>3. Saved(t) /\ t \in Table /\ Active(t) = Active(users)
      BY <2>5, <3>2, ChangeFacts DEF ChooseUsecase, SetUsecase, SInv
    <3>4. Stored(t[current]) = [Stored(users[current]) EXCEPT !.usecase = usecase]
      BY <3>2, StoredFacts DEF SInv
    <3> HIDE DEF t
    <3>5. Store!Becomes(Stored(users[current]), Stored(t[current])) => Store!Choose
      BY <3>4 DEF Store!Choose, Store!Becomes
    <3> QED BY <2>4, <3>1, <3>3, <3>5
  <2>6. ASSUME ChoosePackages PROVE [Store!Next]_<<Accounts, Intact>>
    <3> DEFINE t == [users EXCEPT ![current].onboarded = TRUE]
    <3>1. mode = "ONBOARD_PACKAGES" /\ mode \in OnboardModes
      BY <2>6 DEF ChoosePackages, OnboardModes
    <3>0. CASE current = Nobody
      BY <1>2, <2>0, <2>6, <3>0 DEF ChoosePackages, CompleteOnboarding, Unsaved
    <3> SUFFICES ASSUME current # Nobody PROVE [Store!Next]_<<Accounts, Intact>>
      BY <3>0
    <3>2. Started /\ current \in Active(users)
      BY <1>3, <2>1, <3>1, OnboardFacts DEF StoreInv
    <3>3. Saved(t) /\ t \in Table /\ Active(t) = Active(users)
      BY <2>6, <3>2, ChangeFacts DEF ChoosePackages, CompleteOnboarding, SInv
    <3>4. Stored(t[current]) = [Stored(users[current]) EXCEPT !.onboarded = TRUE]
      BY <3>2, StoredFacts DEF SInv
    <3>5. Stored(users[current]).usecase \in UseCases
      BY <2>1, <3>1, <3>2, StoredFacts DEF SInv, SessionHasUser
    <3> HIDE DEF t
    <3>6. Store!Becomes(Stored(users[current]), Stored(t[current])) => Store!Complete
      BY <3>4, <3>5 DEF Store!Complete, Store!Becomes
    <3> QED BY <2>4, <3>1, <3>3, <3>6
  <2>7. ASSUME NEW password \in Passwords, SignupConfirm(password) PROVE [Store!Next]_<<Accounts, Intact>>
    <3>1. CASE Unsaved
      BY <1>2, <2>0, <3>1 DEF Unsaved
    <3> QED BY <2>3, <2>7, <3>1 DEF SignupConfirm
  <2>8. CASE \/ PromptAgain
             \/ \E name \in Names : SignupUser(name) \/ LoginUser(name)
             \/ \E password \in Passwords : SignupPass(password) \/ LoginPass(password)
             \/ Logout \/ Cls \/ Nano
    <3>1. Unsaved
      BY <2>8 DEF PromptAgain, SignupUser, LoginUser, SignupPass, LoginPass, Logout, Cls, Nano
    <3> QED BY <1>2, <2>0, <3>1 DEF Unsaved
  <2> QED BY <1>3, <2>5, <2>6, <2>7, <2>8 DEF Line, Typed
<1>4. CASE ~failed' /\ (PackagesFault \/ Halt \/ EditorKey \/ SessionBoot \/ PowerFails \/ UNCHANGED sessionVars)
  <2>1. UNCHANGED <<disk, early>>
    BY <1>4 DEF PackagesFault, Halt, EditorKey, EditDone, Unsaved, PowerFails, sessionVars, SessionBoot,
                DiskInit, UsersClear, UsersForget, UsersRead, UsersCopy, ShellLooks, ShellStarts, ShellPrompts
  <2>2. ~failed
    BY <1>4 DEF PackagesFault, Halt, EditorKey, EditDone, Unsaved, PowerFails, sessionVars, SessionBoot,
                DiskInit, UsersClear, UsersForget, UsersRead, UsersCopy, ShellLooks, ShellStarts, ShellPrompts, SInv, SessionTypeOK
  <2>3. failed' = failed
    BY <1>4, <2>2 DEF SInv, SessionTypeOK
  <2> QED BY <1>2, <2>1, <2>3
<1> QED BY <1>1, <1>3, <1>4 DEF SessionStep

\* The table in the sector implements an account store: through every sequence
\* of lines, boots, missing drives and power failures that no failing disk
\* operation and no account created during boot has broken, the account is
\* registered once, with a password that sign-up accepts, and is never
\* overwritten, renamed or onboarded a second time.
THEOREM DiskImplementsStore == Spec => IsAccountStore
<1>1. Init => Store!Init
  BY Constants DEF Init, SessionInit, Store!Init, Accounts, Intact
<1>2. Init => SInv /\ StoreInv
  BY SInit, StoreInit
<1>3. SInv /\ StoreInv /\ [Next]_vars => SInv' /\ StoreInv' /\ [Store!Next]_<<Accounts, Intact>>
  BY SInvStep, SessionView, StoreInvStep, StoreStep
<1> QED BY <1>1, <1>2, <1>3, PTL DEF Spec, IsAccountStore, Store!Spec

-----------------------------------------------------------------------------
(* Keyboard and mouse *)

\* A byte of the keyboard, or of the controller, waits for keyboard_irq_handler.
FromKeyboard == obf /\ data.is \in {"scan", "E0", "config"}

\* irq_dispatch leaves no interrupt in service, and the mouse's is unmasked
\* by Mouse::init.
PicInv == in_service = {} /\ unmasked = IF init_pc = "ready" THEN {1, 2, 12} ELSE {1}

\* The byte is one of a packet.
OfPacket == data.is \in {"first", "moved"}

\* Every byte has its interrupt, or is the acknowledgement that Mouse::init
\* polls for; mouse_irq is behind the mouse by the byte in the buffer.
ByteInv ==
    /\ config = "right"
    /\ 1 \in irr <=> FromKeyboard
    /\ owed => init_pc \in {"ack1", "ack2"}
    /\ init_pc = "config" => data.is = "config"
    /\ obf => \/ FromKeyboard
              \/ data.is = "ack" /\ init_pc \in {"ack1", "ack2"} /\ ~owed
              \/ /\ OfPacket /\ init_pc \in {"register", "ready"} /\ 12 \in irr
                 /\ data.is = "first" <=> packet_idx = 0
    /\ sent = IF obf /\ OfPacket THEN (packet_idx + 1) % 3 ELSE packet_idx

\* The decoder is behind the keys by the byte in the buffer.
Behind(key) == FromKeyboard /\ data.is = "scan" /\ ~ext_prefix /\ data.key = key
Down(key, down) == IF Behind(key) THEN data.up = (key \notin held) ELSE down = (key \in held)
DecoderInv ==
    /\ Down("LShift", shift_down) /\ Down("LCtrl", ctrl_down)
    /\ ~FromKeyboard => (ext_prefix <=> second # NoByte)
    /\ FromKeyboard => /\ data.is = "E0" <=> second # NoByte
                       /\ data.is # "scan" => ~ext_prefix
                       /\ ext_prefix => data.key = "LCtrl"

KInv == InputTypeOK /\ PicInv /\ (~disturbed => ByteInv /\ DecoderInv)

InputStep == KeyboardIRQ \/ MouseIRQ \/ MouseInit \/ Devices \/ InputReset \/ UNCHANGED inputVars

LEMMA InputView == [Next]_vars => InputStep
BY DEF Next, Keyboard, Mouse, Start, Power, vars, InputStep

LEMMA ByteFacts ==
    /\ \A k \in Modifiers \cup {"Enter", "Letter"}, up \in BOOLEAN :
          /\ Scan(k, up) \in Bytes /\ Scan(k, up).is = "scan"
          /\ Scan(k, up).key = k /\ Scan(k, up).up = up /\ Scan(k, up) # NoByte
    /\ \A is \in {"E0", "config", "ack", "first", "moved", "none"} : Other(is) \in Bytes /\ Other(is).is = is
    /\ NoByte \in Bytes /\ NoByte.is = "none"
    /\ \A b \in Bytes : b.up \in BOOLEAN
<1>1. ASSUME NEW k \in Modifiers \cup {"Enter", "Letter"}, NEW up \in BOOLEAN
      PROVE  /\ Scan(k, up) \in Bytes /\ Scan(k, up).is = "scan"
             /\ Scan(k, up).key = k /\ Scan(k, up).up = up /\ Scan(k, up) # NoByte
  <2>1. Scan(k, up) \in Bytes
    BY DEF Bytes, ScanCodes
  <2>2. Scan(k, up).is = "scan" /\ Scan(k, up).key = k /\ Scan(k, up).up = up
    BY DEF Scan
  <2>3. NoByte.is = "none"
    BY DEF NoByte, Other
  <2> QED BY <2>1, <2>2, <2>3
<1>2. ASSUME NEW is \in {"E0", "config", "ack", "first", "moved", "none"}
      PROVE  Other(is) \in Bytes /\ Other(is).is = is
  BY DEF Bytes, Other
<1>3. NoByte \in Bytes /\ NoByte.is = "none"
  BY <1>2 DEF NoByte
<1>4. ASSUME NEW b \in Bytes PROVE b.up \in BOOLEAN
  <2>1. CASE b \in ScanCodes
    BY <2>1 DEF ScanCodes, Scan
  <2>2. CASE \E is \in {"E0", "config", "ack", "first", "moved", "none"} : b = Other(is)
    BY <2>2 DEF Other
  <2> QED BY <2>1, <2>2 DEF Bytes
<1> QED BY <1>1, <1>2, <1>3, <1>4

LEMMA DeliverFacts ==
    ASSUME PicInv
    PROVE  /\ Deliverable(1) <=> 1 \in irr
           /\ Deliverable(12) <=> 12 \in irr /\ init_pc = "ready"
BY DEF PicInv, Deliverable, Chain

\* The controller and the types
LEMMA PicStep == InputTypeOK /\ PicInv /\ InputStep => PicInv'
<1> SUFFICES ASSUME InputTypeOK, PicInv, InputStep PROVE PicInv'
  OBVIOUS
<1>1. CASE KeyboardIRQ
  BY <1>1 DEF KeyboardIRQ, Dispatch, Chain, Eoi, PicInv
<1>2. CASE MouseIRQ
  BY <1>2 DEF MouseIRQ, Dispatch, Chain, Eoi, PicInv
<1>3. CASE MouseInit
  <2>1. CASE AskConfig
    BY <2>1 DEF AskConfig, InitAt, Put, PicInv
  <2>2. CASE ReadConfig
    BY <2>2 DEF ReadConfig, InitAt, picVars, PicInv
  <2>3. CASE Command("defaults", "ack1") \/ Command("report", "ack2")
    BY <2>3 DEF Command, InitAt, picVars, PicInv
  <2>4. CASE ReadAck("ack1", "report") \/ ReadAck("ack2", "register")
    BY <2>4 DEF ReadAck, InitAt, picVars, PicInv
  <2>5. CASE Register
    BY <2>5 DEF Register, InitAt, Lines, Chain, PicInv
  <2> QED BY <1>3, <2>1, <2>2, <2>3, <2>4, <2>5 DEF MouseInit
<1>4. CASE Devices
  BY <1>4 DEF Devices, Keys, Modifier, Strike, Prefixed, AfterPrefix, KeyComes, MouseAnswers, MouseMoves, Put, PicInv
<1>5. CASE InputReset
  BY <1>5 DEF InputReset, PicInv
<1>6. CASE UNCHANGED inputVars
  BY <1>6 DEF inputVars, picVars, PicInv
<1> QED BY <1>1, <1>2, <1>3, <1>4, <1>5, <1>6 DEF InputStep

LEMMA InputTypeStep == InputTypeOK /\ PicInv /\ InputStep => InputTypeOK'
<1> SUFFICES ASSUME InputTypeOK, PicInv, InputStep PROVE InputTypeOK'
  OBVIOUS
<1> USE DEF InputTypeOK
<1>1. CASE KeyboardIRQ
  <2>1. data.up \in BOOLEAN
    BY ByteFacts
  <2> QED BY <1>1, <2>1, ByteFacts DEF KeyboardIRQ, Dispatch, Chain, Eoi, Take
<1>2. CASE MouseIRQ
  <2>1. (packet_idx + 1) % 3 \in 0 .. 2
    OBVIOUS
  <2>2. irr' \subseteq {1, 12} /\ in_service' \subseteq {1, 2, 12} /\ unmasked' = unmasked
    BY <1>2 DEF MouseIRQ, Dispatch, Chain, Eoi
  <2>3. obf' \in BOOLEAN /\ data' \in Bytes /\ packet_idx' \in 0 .. 2
    <3>1. Placed \subseteq 0 .. 2
      BY <2>1 DEF Placed
    <3> QED BY <1>2, <3>1, ByteFacts DEF MouseIRQ, Take
  <2> QED BY <1>2, <2>2, <2>3 DEF MouseIRQ, decoderVars
<1>3. CASE MouseInit
  <2> USE DEF InitAt, InitPc, Waiting, picVars, decoderVars
  <2>1. CASE AskConfig
    BY <2>1, ByteFacts DEF AskConfig, Put
  <2>2. CASE ReadConfig
    BY <2>2, ByteFacts DEF ReadConfig, Take
  <2>3. CASE Command("defaults", "ack1") \/ Command("report", "ack2")
    BY <2>3 DEF Command
  <2>4. CASE ReadAck("ack1", "report") \/ ReadAck("ack2", "register")
    BY <2>4, ByteFacts DEF ReadAck, Take
  <2>5. CASE Register
    BY <2>5 DEF Register, Lines, Chain
  <2> QED BY <1>3, <2>1, <2>2, <2>3, <2>4, <2>5 DEF MouseInit
<1>4. CASE Devices
  <2>1. ASSUME NEW byte \in Bytes, KeyComes(byte), second' \in Bytes, held' \subseteq Modifiers PROVE InputTypeOK'
    BY <2>1 DEF KeyComes, Put, decoderVars
  <2>2. CASE Keys
    <3>1. ASSUME NEW key \in Modifiers, Modifier(key) PROVE InputTypeOK'
      <4>1. (key \in held) \in BOOLEAN
        OBVIOUS
      <4>2. Scan(key, key \in held) \in Bytes
        BY <4>1, ByteFacts
      <4> QED BY <2>1, <3>1, <4>2 DEF Modifier
    <3>2. ASSUME NEW key \in {"Enter", "Letter"}, NEW up \in BOOLEAN, Strike(key, up) PROVE InputTypeOK'
      BY <2>1, <3>2, ByteFacts DEF Strike
    <3>3. ASSUME NEW up \in BOOLEAN, Prefixed(up) PROVE InputTypeOK'
      BY <2>1, <3>3, ByteFacts DEF Prefixed, Modifiers
    <3>4. CASE AfterPrefix
      BY <2>1, <3>4, ByteFacts DEF AfterPrefix
    <3> QED BY <2>2, <3>1, <3>2, <3>3, <3>4 DEF Keys
  <2>3. CASE MouseAnswers
    BY <2>3, ByteFacts DEF MouseAnswers, Put, decoderVars
  <2>4. CASE MouseMoves
    BY <2>4, ByteFacts DEF MouseMoves, Put, decoderVars
  <2> QED BY <1>4, <2>2, <2>3, <2>4 DEF Devices
<1>5. CASE InputReset
  <2>1. 0 \in 0 .. 2 /\ {} \subseteq {1, 12} /\ {1} \subseteq {1, 2, 12}
    OBVIOUS
  <2> QED BY <1>5, <2>1, ByteFacts DEF InputReset, InitPc
<1>6. CASE UNCHANGED inputVars
  BY <1>6 DEF inputVars, picVars, decoderVars
<1> QED BY <1>1, <1>2, <1>3, <1>4, <1>5, <1>6 DEF InputStep

\* A key comes in, in a step that changes nothing else about the buffer.
KeyStep(byte) ==
    /\ KeyComes(byte)
    /\ \/ \E key \in Modifiers : byte = Scan(key, key \in held) /\ second = NoByte /\ second' = NoByte
                                 /\ held' = IF key \in held THEN held \ {key} ELSE held \cup {key}
       \/ byte.is = "scan" /\ byte.key \in {"Enter", "Letter"} /\ second = NoByte /\ UNCHANGED <<second, held>>
       \/ byte.is = "E0" /\ second = NoByte /\ second' # NoByte /\ second'.is = "scan" /\ second'.key = "LCtrl" /\ held' = held
       \/ byte = second /\ second # NoByte /\ second' = NoByte /\ held' = held

LEMMA KeysCases == Keys => \E byte : KeyStep(byte)
<1> SUFFICES ASSUME Keys PROVE \E byte : KeyStep(byte)
  OBVIOUS
<1>1. ASSUME NEW key \in Modifiers, Modifier(key) PROVE KeyStep(Scan(key, key \in held))
  BY <1>1 DEF Modifier, KeyStep
<1>2. ASSUME NEW key \in {"Enter", "Letter"}, NEW up \in BOOLEAN, Strike(key, up) PROVE KeyStep(Scan(key, up))
  <2>1. Scan(key, up).is = "scan" /\ Scan(key, up).key = key
    BY ByteFacts
  <2>2. KeyComes(Scan(key, up)) /\ second = NoByte /\ UNCHANGED <<second, held>>
    BY <1>2 DEF Strike
  <2> QED BY <2>1, <2>2 DEF KeyStep
<1>3. ASSUME NEW up \in BOOLEAN, Prefixed(up) PROVE KeyStep(Other("E0"))
  <2>1. Other("E0").is = "E0"
    BY ByteFacts
  <2>2. Scan("LCtrl", up).is = "scan" /\ Scan("LCtrl", up).key = "LCtrl" /\ Scan("LCtrl", up) # NoByte
    BY ByteFacts DEF Modifiers
  <2>3. KeyComes(Other("E0")) /\ second = NoByte /\ second' = Scan("LCtrl", up) /\ held' = held
    BY <1>3 DEF Prefixed
  <2> QED BY <2>1, <2>2, <2>3 DEF KeyStep
<1>4. CASE AfterPrefix
  BY <1>4 DEF AfterPrefix, KeyStep
<1> QED BY <1>1, <1>2, <1>3, <1>4 DEF Keys

\* What follows 0xE0 is a scan code of a control key.
SecondInv == second # NoByte => second.is = "scan" /\ second.key = "LCtrl"

LEMMA SecondStep == SecondInv /\ InputStep => SecondInv'
<1> SUFFICES ASSUME SecondInv, InputStep PROVE SecondInv'
  OBVIOUS
<1>1. CASE Keys
  <2>1. PICK byte : KeyStep(byte)
    BY <1>1, KeysCases
  <2> QED BY <2>1 DEF KeyStep, SecondInv
<1>2. CASE InputReset
  BY <1>2 DEF InputReset, SecondInv
<1>3. ASSUME ~Keys, ~InputReset PROVE second' = second
  BY <1>3 DEF InputStep, KeyboardIRQ, MouseIRQ, MouseInit, AskConfig, ReadConfig, Command, ReadAck, Register,
              Devices, MouseAnswers, MouseMoves, inputVars
<1> QED BY <1>1, <1>2, <1>3 DEF SecondInv

\* Nothing of the keyboard has changed.
DecoderKept ==
    /\ UNCHANGED <<held, second, shift_down, ctrl_down, ext_prefix>>
    /\ FromKeyboard' <=> FromKeyboard
    /\ FromKeyboard => data' = data

LEMMA DecoderKeptIsEnough == DecoderInv /\ DecoderKept => DecoderInv'
<1> SUFFICES ASSUME DecoderInv, DecoderKept PROVE DecoderInv'
  OBVIOUS
<1>1. ASSUME NEW key PROVE Behind(key)' <=> Behind(key)
  BY DEF DecoderKept, Behind
<1>2. ASSUME NEW key, NEW down PROVE Down(key, down) => IF Behind(key)' THEN data'.up = (key \notin held') ELSE down = (key \in held')
  BY <1>1 DEF DecoderKept, Down, Behind
<1>3. Down("LShift", shift_down)' /\ Down("LCtrl", ctrl_down)'
  BY <1>2 DEF DecoderInv, DecoderKept, Down
<1> QED BY <1>3 DEF DecoderInv, DecoderKept

LEMMA KeyboardIrqStep ==
    ASSUME InputTypeOK, PicInv, ByteInv, DecoderInv, KeyboardIRQ
    PROVE  ByteInv' /\ DecoderInv'
<1>1. /\ FromKeyboard /\ irr' = irr \ {1} /\ obf' = FALSE /\ (init_pc = "config" => data' = data)
      /\ UNCHANGED <<config, held, second, init_pc, owed, sent, packet_idx>>
  BY DeliverFacts DEF KeyboardIRQ, Dispatch, Take, ByteInv, OfPacket, InitDone
<1>2. ~FromKeyboard'
  BY <1>1 DEF FromKeyboard
<1>3. ByteInv'
  BY <1>1, <1>2 DEF ByteInv, OfPacket, FromKeyboard
<1>4. ext_prefix' <=> second' # NoByte
  BY <1>1 DEF KeyboardIRQ, DecoderInv
<1>5. Down("LShift", shift_down)'
  <2>1. shift_down' = ("LShift" \in held)
    <3>1. CASE IsKey("LShift")
      <4>1. data.up = ("LShift" \notin held)
        BY <1>1, <3>1 DEF DecoderInv, Down, Behind, IsKey
      <4>2. shift_down' = ~data.up
        BY <3>1 DEF KeyboardIRQ
      <4>3. (~("LShift" \notin held)) = ("LShift" \in held)
        OBVIOUS
      <4> QED BY <4>1, <4>2, <4>3
    <3>2. CASE ~IsKey("LShift")
      BY <1>1, <3>2 DEF KeyboardIRQ, DecoderInv, Down, Behind, IsKey
    <3> QED BY <3>1, <3>2
  <2> QED BY <1>1, <1>2, <2>1 DEF Down, Behind
<1>6. Down("LCtrl", ctrl_down)'
  <2>1. ctrl_down' = ("LCtrl" \in held)
    <3>1. CASE IsKey("LCtrl")
      <4>1. data.up = ("LCtrl" \notin held)
        BY <1>1, <3>1 DEF DecoderInv, Down, Behind, IsKey
      <4>2. ctrl_down' = ~data.up
        BY <3>1 DEF KeyboardIRQ
      <4>3. (~("LCtrl" \notin held)) = ("LCtrl" \in held)
        OBVIOUS
      <4> QED BY <4>1, <4>2, <4>3
    <3>2. CASE ~IsKey("LCtrl")
      BY <1>1, <3>2 DEF KeyboardIRQ, DecoderInv, Down, Behind, IsKey
    <3> QED BY <3>1, <3>2
  <2> QED BY <1>1, <1>2, <2>1 DEF Down, Behind
<1> QED BY <1>2, <1>3, <1>4, <1>5, <1>6 DEF DecoderInv

\* A key comes in while Mouse::init is not waiting for an answer.
LEMMA KeyStepKeeps ==
    ASSUME InputTypeOK, ByteInv, DecoderInv, SecondInv, NEW byte, KeyStep(byte), ~disturbed'
    PROVE  ByteInv' /\ DecoderInv'
<1>1. /\ ~obf /\ obf' = TRUE /\ data' = byte /\ irr' = irr \cup {1} /\ init_pc \notin Waiting
      /\ UNCHANGED <<config, shift_down, ctrl_down, ext_prefix, init_pc, owed, sent, packet_idx>>
  BY DEF KeyStep, KeyComes, Put, decoderVars, ByteInv, OfPacket
<1>2. byte.is \in {"scan", "E0"}
  BY DEF KeyStep, SecondInv, Scan
<1>3. ~FromKeyboard /\ FromKeyboard'
  BY <1>1, <1>2 DEF FromKeyboard
<1>4. ByteInv'
  BY <1>1, <1>2, <1>3 DEF ByteInv, OfPacket, Waiting
<1>5. shift_down = ("LShift" \in held) /\ ctrl_down = ("LCtrl" \in held) /\ (ext_prefix <=> second # NoByte)
  BY <1>3 DEF DecoderInv, Down, Behind
<1>6. ASSUME NEW key \in Modifiers, byte = Scan(key, key \in held), second = NoByte, second' = NoByte,
             held' = IF key \in held THEN held \ {key} ELSE held \cup {key}
      PROVE  DecoderInv'
  <2>2. byte.is = "scan" /\ byte.key = key /\ byte.up = (key \in held)
    BY <1>6 DEF Scan
  <2>3. (key \in held) = (key \notin held')
    BY <1>6
  <2>4. byte.up = (key \notin held')
    BY <2>2, <2>3
  <2>5. ~ext_prefix'
    BY <1>1, <1>5, <1>6
  <2>6. \A k \in Modifiers : Behind(k)' <=> k = key
    BY <1>1, <1>3, <2>2, <2>5 DEF Behind
  <2>7. \A k \in Modifiers \ {key} : (k \in held') = (k \in held)
    BY <1>6
  <2>8. Down("LShift", shift_down)'
    BY <1>1, <1>5, <2>4, <2>6, <2>7 DEF Down, Modifiers
  <2>9. Down("LCtrl", ctrl_down)'
    BY <1>1, <1>5, <2>4, <2>6, <2>7 DEF Down, Modifiers
  <2> QED BY <1>1, <1>3, <1>6, <2>2, <2>5, <2>8, <2>9 DEF DecoderInv
<1>7. ASSUME held' = held, ~Behind("LShift")', ~Behind("LCtrl")' PROVE Down("LShift", shift_down)' /\ Down("LCtrl", ctrl_down)'
  BY <1>1, <1>5, <1>7 DEF Down
<1>8. CASE byte.is = "scan" /\ byte.key \in {"Enter", "Letter"} /\ second = NoByte /\ UNCHANGED <<second, held>>
  <2>1. ~ext_prefix'
    BY <1>1, <1>5, <1>8
  <2>2. ~Behind("LShift")' /\ ~Behind("LCtrl")'
    BY <1>1, <1>8 DEF Behind
  <2>3. Down("LShift", shift_down)' /\ Down("LCtrl", ctrl_down)'
    BY <1>7, <1>8, <2>2
  <2>4. (data'.is = "E0" <=> second' # NoByte) /\ (data'.is # "scan" => ~ext_prefix') /\ (ext_prefix' => data'.key = "LCtrl")
    BY <1>1, <1>8, <2>1
  <2> QED BY <1>3, <1>4, <2>3, <2>4 DEF DecoderInv
<1>9. CASE byte.is = "E0" /\ second = NoByte /\ second' # NoByte /\ held' = held
  <2>1. ~ext_prefix'
    BY <1>1, <1>5, <1>9
  <2>2. ~Behind("LShift")' /\ ~Behind("LCtrl")'
    BY <1>1, <1>9 DEF Behind
  <2>3. Down("LShift", shift_down)' /\ Down("LCtrl", ctrl_down)'
    BY <1>7, <1>9, <2>2
  <2>4. (data'.is = "E0" <=> second' # NoByte) /\ (data'.is # "scan" => ~ext_prefix') /\ (ext_prefix' => data'.key = "LCtrl")
    BY <1>1, <1>9, <2>1
  <2> QED BY <1>3, <1>4, <2>3, <2>4 DEF DecoderInv
<1>10. CASE byte = second /\ second # NoByte /\ second' = NoByte /\ held' = held
  <2>1. ext_prefix' /\ byte.is = "scan" /\ byte.key = "LCtrl"
    BY <1>1, <1>5, <1>10 DEF SecondInv
  <2>2. ~Behind("LShift")' /\ ~Behind("LCtrl")'
    BY <2>1 DEF Behind
  <2>3. Down("LShift", shift_down)' /\ Down("LCtrl", ctrl_down)'
    BY <1>7, <1>10, <2>2
  <2>4. (data'.is = "E0" <=> second' # NoByte) /\ (data'.is # "scan" => ~ext_prefix') /\ (ext_prefix' => data'.key = "LCtrl")
    BY <1>1, <1>10, <2>1
  <2> QED BY <1>3, <1>4, <2>3, <2>4 DEF DecoderInv
<1>11. DecoderInv'
  BY <1>6, <1>8, <1>9, <1>10 DEF KeyStep
<1> QED BY <1>4, <1>11

\* The mouse, and Mouse::init as long as it is not disturbed
LEMMA MouseStep ==
    ASSUME InputTypeOK, PicInv, ByteInv, DecoderInv, ~disturbed',
           MouseIRQ \/ MouseInit \/ MouseAnswers \/ MouseMoves
    PROVE  ByteInv' /\ DecoderInv'
<1>0. 1 \in irr <=> FromKeyboard
  BY DEF ByteInv, OfPacket
<1>1. CASE MouseIRQ
  <2>1. /\ init_pc = "ready" /\ irr' = irr \ {12}
        /\ UNCHANGED <<config, held, second, shift_down, ctrl_down, ext_prefix, init_pc, owed, sent>>
    BY <1>1, DeliverFacts DEF MouseIRQ, Dispatch, decoderVars
  <2>2. CASE FromMouse /\ Take /\ packet_idx' \in Placed
    <3>1. obf /\ OfPacket /\ obf' = FALSE /\ ~FromKeyboard /\ ~FromKeyboard'
      BY <2>1, <2>2 DEF FromMouse, Take, ByteInv, OfPacket, FromKeyboard
    <3>3. packet_idx' = (packet_idx + 1) % 3 /\ sent = packet_idx'
      BY <2>1, <2>2, <3>1 DEF Placed, ByteInv, OfPacket, FromKeyboard
    <3>2. ByteInv'
      BY <2>1, <3>1, <3>3 DEF ByteInv, OfPacket
    <3> QED BY <2>1, <3>1, <3>2, DecoderKeptIsEnough DEF DecoderKept
  <2>3. CASE ~FromMouse /\ UNCHANGED <<obf, data, packet_idx>>
    <3>1. (FromKeyboard' <=> FromKeyboard) /\ (1 \in irr' <=> 1 \in irr)
      BY <2>1, <2>3 DEF FromKeyboard
    <3>2. ByteInv'
      BY <2>1, <2>3, <3>1 DEF ByteInv, OfPacket, FromMouse
    <3> QED BY <2>1, <2>3, <3>1, <3>2, DecoderKeptIsEnough DEF DecoderKept
  <2> QED BY <1>1, <2>2, <2>3 DEF MouseIRQ
<1>2. CASE MouseAnswers
  <2>1. /\ owed /\ ~obf /\ obf' = TRUE /\ data'.is = "ack" /\ irr' = irr \cup {12} /\ owed' = FALSE
        /\ UNCHANGED <<config, held, second, shift_down, ctrl_down, ext_prefix, init_pc, sent, packet_idx>>
    BY <1>2, ByteFacts DEF MouseAnswers, Put, decoderVars, ByteInv, OfPacket
  <2>2. ~FromKeyboard /\ ~FromKeyboard'
    BY <2>1 DEF FromKeyboard
  <2>3. ByteInv'
    BY <2>1, <2>2 DEF ByteInv, OfPacket
  <2> QED BY <2>1, <2>2, <2>3, DecoderKeptIsEnough DEF DecoderKept
<1>3. CASE MouseMoves
  <2>1. /\ ~obf /\ obf' = TRUE /\ data'.is = (IF sent = 0 THEN "first" ELSE "moved") /\ irr' = irr \cup {12} /\ sent' = (sent + 1) % 3
        /\ init_pc \in {"register", "ready"}
        /\ UNCHANGED <<config, held, second, shift_down, ctrl_down, ext_prefix, init_pc, owed, packet_idx>>
    BY <1>3, ByteFacts DEF MouseMoves, Put, decoderVars, ByteInv, OfPacket
  <2>2. ~FromKeyboard /\ ~FromKeyboard'
    BY <2>1 DEF FromKeyboard
  <2>3. ByteInv'
    BY <2>1, <2>2 DEF ByteInv, OfPacket
  <2> QED BY <2>1, <2>2, <2>3, DecoderKeptIsEnough DEF DecoderKept
<1>4. CASE MouseInit
  <2>0. ASSUME ~Deliverable(1) PROVE ~FromKeyboard
    BY <1>0, <2>0, DeliverFacts
  <2>1. CASE AskConfig
    <3>1. /\ ~obf /\ ~ext_prefix /\ obf' = TRUE /\ data'.is = "config" /\ irr' = irr \cup {1} /\ init_pc' = "config"
          /\ init_pc = "ask"
          /\ UNCHANGED <<config, held, second, shift_down, ctrl_down, ext_prefix, owed, sent, packet_idx>>
      BY <2>1, ByteFacts DEF AskConfig, InitAt, Put, decoderVars, ByteInv, OfPacket, InputTypeOK
    <3>2. ~FromKeyboard /\ FromKeyboard'
      BY <3>1 DEF FromKeyboard
    <3>3. ByteInv'
      BY <3>1, <3>2 DEF ByteInv, OfPacket
    <3>4. ~Behind("LShift") /\ ~Behind("LCtrl") /\ ~Behind("LShift")' /\ ~Behind("LCtrl")'
      BY <3>1, <3>2 DEF Behind
    <3>5. Down("LShift", shift_down)' /\ Down("LCtrl", ctrl_down)'
      BY <3>1, <3>4 DEF Down, DecoderInv
    <3>6. second' = NoByte
      BY <3>1, <3>2 DEF DecoderInv
    <3> QED BY <3>1, <3>2, <3>3, <3>5, <3>6 DEF DecoderInv
  <2>2. CASE ReadConfig
    <3>1. /\ ~FromKeyboard /\ init_pc = "config" /\ init_pc' = "defaults" /\ obf' = FALSE /\ config' = "right"
          /\ UNCHANGED <<irr, held, second, shift_down, ctrl_down, ext_prefix, owed, sent, packet_idx>>
      BY <2>0, <2>2 DEF ReadConfig, InitAt, Take, picVars, decoderVars, ByteInv, OfPacket
    <3>2. ~FromKeyboard'
      BY <3>1 DEF FromKeyboard
    <3>3. ~obf
      BY <3>1 DEF ByteInv, OfPacket
    <3>4. ByteInv'
      BY <3>1, <3>2, <3>3 DEF ByteInv, OfPacket
    <3> QED BY <3>1, <3>2, <3>4, DecoderKeptIsEnough DEF DecoderKept
  <2>3. CASE Command("defaults", "ack1") \/ Command("report", "ack2")
    <3>1. /\ ~FromKeyboard /\ init_pc \in {"defaults", "report"} /\ init_pc' \in {"ack1", "ack2"} /\ owed' = TRUE
          /\ UNCHANGED <<obf, data, irr, config, held, second, shift_down, ctrl_down, ext_prefix, sent, packet_idx>>
      BY <2>0, <2>3 DEF Command, InitAt, picVars, decoderVars
    <3>2. ~FromKeyboard'
      BY <3>1 DEF FromKeyboard
    <3>3. ~obf
      BY <3>1 DEF ByteInv, OfPacket
    <3>4. ByteInv'
      BY <3>1, <3>2, <3>3 DEF ByteInv, OfPacket
    <3> QED BY <3>1, <3>2, <3>4, DecoderKeptIsEnough DEF DecoderKept
  <2>4. CASE ReadAck("ack1", "report") \/ ReadAck("ack2", "register")
    <3>1. /\ ~FromKeyboard /\ init_pc \in {"ack1", "ack2"} /\ init_pc' \in {"report", "register", "failed"} /\ obf' = FALSE
          /\ (obf /\ owed' = owed) \/ owed' = FALSE
          /\ UNCHANGED <<irr, config, held, second, shift_down, ctrl_down, ext_prefix, sent, packet_idx>>
      BY <2>0, <2>4 DEF ReadAck, InitAt, Take, picVars, decoderVars
    <3>2. ~FromKeyboard'
      BY <3>1 DEF FromKeyboard
    <3>3. ~(obf /\ OfPacket) /\ ~owed'
      BY <3>1 DEF ByteInv, OfPacket
    <3>4. ByteInv'
      BY <3>1, <3>2, <3>3 DEF ByteInv, OfPacket
    <3> QED BY <3>1, <3>2, <3>4, DecoderKeptIsEnough DEF DecoderKept
  <2>5. CASE Register
    <3>1. /\ ~FromKeyboard /\ init_pc = "register" /\ init_pc' = "ready"
          /\ UNCHANGED <<obf, data, irr, config, held, second, shift_down, ctrl_down, ext_prefix, owed, sent, packet_idx>>
      BY <2>0, <2>5 DEF Register, InitAt, picVars, decoderVars
    <3>2. ~FromKeyboard'
      BY <3>1 DEF FromKeyboard
    <3>3. ByteInv'
      BY <3>1, <3>2 DEF ByteInv, OfPacket
    <3> QED BY <3>1, <3>2, <3>3, DecoderKeptIsEnough DEF DecoderKept
  <2> QED BY <1>4, <2>1, <2>2, <2>3, <2>4, <2>5 DEF MouseInit
<1> QED BY <1>1, <1>2, <1>3, <1>4

LEMMA NoneHeld == \A keys : keys = {} => \A k : FALSE = (k \in keys)
<1> SUFFICES ASSUME NEW k PROVE FALSE = (k \in {})
  OBVIOUS
<1>1. k \notin {}
  OBVIOUS
<1> QED BY <1>1

LEMMA KInvStep == KInv /\ SecondInv /\ [Next]_vars => KInv'
<1> SUFFICES ASSUME KInv, SecondInv, [Next]_vars PROVE KInv'
  OBVIOUS
<1>0. InputStep /\ InputTypeOK /\ PicInv /\ InputTypeOK' /\ PicInv'
  BY InputView, PicStep, InputTypeStep DEF KInv
<1> SUFFICES ASSUME ~disturbed' PROVE ByteInv' /\ DecoderInv'
  BY <1>0 DEF KInv
<1>1. CASE InputReset
  <2>1. /\ obf' = FALSE /\ irr' = {} /\ config' = "right" /\ held' = {} /\ second' = NoByte /\ shift_down' = FALSE
        /\ ctrl_down' = FALSE /\ ext_prefix' = FALSE /\ init_pc' = "ask" /\ owed' = FALSE /\ sent' = 0 /\ packet_idx' = 0
    BY <1>1 DEF InputReset
  <2>2. ~FromKeyboard' /\ ~Behind("LShift")' /\ ~Behind("LCtrl")'
    BY <2>1 DEF FromKeyboard, Behind
  <2>3. ByteInv'
    BY <2>1, <2>2 DEF ByteInv, OfPacket
  <2>4. shift_down' = ("LShift" \in held') /\ ctrl_down' = ("LCtrl" \in held')
    BY <2>1, NoneHeld
  <2>5. Down("LShift", shift_down)' /\ Down("LCtrl", ctrl_down)'
    BY <2>2, <2>4 DEF Down
  <2> QED BY <2>1, <2>2, <2>3, <2>5 DEF DecoderInv
<1>2. CASE ~InputReset
  <2>1. ~disturbed
    BY <1>0, <1>2 DEF InputStep, KeyboardIRQ, MouseIRQ, MouseInit, AskConfig, ReadConfig, Command, ReadAck, Register,
              Devices, Keys, Modifier, Strike, Prefixed, AfterPrefix, KeyComes, MouseAnswers, MouseMoves, inputVars,
              InputTypeOK
  <2>2. ByteInv /\ DecoderInv
    BY <2>1 DEF KInv
  <2>3. CASE KeyboardIRQ
    BY <1>0, <2>2, <2>3, KeyboardIrqStep
  <2>4. CASE MouseIRQ \/ MouseInit \/ MouseAnswers \/ MouseMoves
    BY <1>0, <2>2, <2>4, MouseStep
  <2>5. CASE Keys
    BY <1>0, <2>2, <2>5, KeysCases, KeyStepKeeps
  <2>6. CASE UNCHANGED inputVars
    <3>1. DecoderKept /\ (FromKeyboard' <=> FromKeyboard)
      BY <2>6 DEF inputVars, decoderVars, DecoderKept, FromKeyboard
    <3>2. ByteInv'
      BY <2>2, <2>6, <3>1 DEF inputVars, picVars, ByteInv, OfPacket
    <3> QED BY <2>2, <3>1, <3>2, DecoderKeptIsEnough
  <2> QED BY <1>0, <1>2, <2>3, <2>4, <2>5, <2>6 DEF InputStep, Devices
<1> QED BY <1>1, <1>2

LEMMA KInit == Init => KInv /\ SecondInv
<1> SUFFICES ASSUME Init PROVE KInv /\ SecondInv
  OBVIOUS
<1>1. /\ obf = FALSE /\ data = NoByte /\ irr = {} /\ in_service = {} /\ unmasked = {1} /\ config = "right"
      /\ held = {} /\ second = NoByte /\ shift_down = FALSE
      /\ ctrl_down = FALSE /\ ext_prefix = FALSE /\ init_pc = "ask" /\ owed = FALSE /\ sent = 0 /\ packet_idx = 0
      /\ disturbed = FALSE
  BY DEF Init, InputInit
<1>2. ~FromKeyboard /\ ~Behind("LShift") /\ ~Behind("LCtrl")
  BY <1>1 DEF FromKeyboard, Behind
<1>3. ByteInv /\ PicInv /\ SecondInv
  BY <1>1, <1>2 DEF ByteInv, OfPacket, PicInv, SecondInv
<1>4. Down("LShift", shift_down) /\ Down("LCtrl", ctrl_down)
  <2>1. shift_down = ("LShift" \in held) /\ ctrl_down = ("LCtrl" \in held)
    BY <1>1, NoneHeld
  <2> QED BY <1>2, <2>1 DEF Down
<1>5. 0 \in 0 .. 2 /\ {} \subseteq {1, 12} /\ {1} \subseteq {1, 2, 12}
  OBVIOUS
<1>6. InputTypeOK
  BY <1>1, <1>5, ByteFacts DEF InputTypeOK, InitPc
<1>7. DecoderInv
  BY <1>1, <1>2, <1>4 DEF DecoderInv
<1> QED BY <1>3, <1>6, <1>7 DEF KInv

LEMMA InputInvariance == Spec => [](KInv /\ SecondInv)
<1>1. KInv /\ SecondInv /\ [Next]_vars => (KInv /\ SecondInv)'
  BY KInvStep, SecondStep, InputView
<1> QED BY <1>1, KInit, PTL DEF Spec

\* Whatever is typed and moved, and whenever the interrupts come:
\* keyboard_irq_handler and mouse_irq agree with the devices once all bytes
\* are handled, as long as no key disturbed Mouse::init.
THEOREM DecodersInStep == Spec => []InStep
<1>1. KInv => InStep
  <2> SUFFICES ASSUME KInv, ~disturbed, ~obf
               PROVE  /\ packet_idx = sent
                      /\ second = NoByte => /\ ~ext_prefix
                                            /\ shift_down = ("LShift" \in held)
                                            /\ ctrl_down = ("LCtrl" \in held)
    BY DEF InStep
  <2>1. ByteInv /\ DecoderInv /\ ~FromKeyboard
    BY DEF KInv, FromKeyboard
  <2> QED BY <2>1 DEF ByteInv, OfPacket, DecoderInv, Down, Behind
<1> QED BY <1>1, InputInvariance, PTL

\* Every step of the machine keeps the types of accounts, modes and drivers.
THEOREM TypeCorrect == Spec => []TypeOK
<1>1. SInv /\ KInv => TypeOK
  BY DEF SInv, KInv, TypeOK
<1> QED BY <1>1, SessionInvariance, InputInvariance, PTL
=============================================================================
