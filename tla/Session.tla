------------------------------ MODULE Session ------------------------------
(***************************************************************************)
(* User accounts and the shell's mode machine: kernel/users.cpp (the user  *)
(* table and its copy on disk) and shell_init, handle_line and edit_update *)
(* of kernel/shell.cpp (sign-up, onboarding, login, shell, editor).        *)
(*                                                                         *)
(* Every line typed by the user is one action, handled with interrupts     *)
(* off.  Lines are also handled while _start (kernel/kernel.cpp) is still  *)
(* on its way from keyboard_init to the end of shell_init, whose steps are *)
(* actions too, with interrupts on between them.  A disk operation may     *)
(* fail, and the power may go at any point between.                        *)
(***************************************************************************)
EXTENDS Naturals, FiniteSets

CONSTANTS
    Names,       \* what can be typed as a user name
    Cut,         \* str_copy into User::name: a name cut to 31 characters
    Passwords,   \* what can be typed as a password
    Short,       \* the passwords of less than three characters
    Hash,        \* hash_password
    UseCases,    \* the choices of the onboarding dialogue
    MaxUsers     \* MAX_USERS

ASSUME CutAssumption == Cut \in [Names -> Names] /\ \A name \in Names : Cut[Cut[name]] = Cut[name]
ASSUME PasswordAssumption == Short \subseteq Passwords /\ Hash \in [Passwords -> Nat]
ASSUME UsersAssumption == MaxUsers \in Nat \ {0}
ASSUME NoneAssumption == "none" \notin Names \cup Passwords \cup UseCases

VARIABLES
    users,       \* users[i]
    disk,        \* the table in sector USER_SECTOR; no accounts if it has none
    current,     \* current_user, an index or Nobody
    mode,        \* shell_mode
    pending,     \* pending_username and pending_password
    hidden,      \* password_mode
    phase,       \* how far _start has come
    present,     \* drive.present
    sector,      \* load_from_disk's buffer; no accounts if nothing was read
    failed,      \* history: an operation of a present disk has failed
    early,       \* history: an account was created before shell_init set the mode
    exposed      \* history: shell_init has switched the echo on at a password prompt

bootVars == <<phase, present, sector>>
sessionVars == <<users, disk, current, mode, pending, hidden, bootVars, failed, early, exposed>>

Index == 1 .. MaxUsers
Nobody == 0
NoUser == [name |-> "none", pass_hash |-> 0, usecase |-> "none", onboarded |-> FALSE, active |-> FALSE]
User == [name : Names, pass_hash : Nat, usecase : UseCases \cup {"none"},
         onboarded : BOOLEAN, active : {TRUE}] \cup {NoUser}
Table == [Index -> User]
Mode == {"SIGNUP_USER", "SIGNUP_PASS", "SIGNUP_CONFIRM", "ONBOARD_USECASE",
         "ONBOARD_PACKAGES", "LOGIN_USER", "LOGIN_PASS", "EDIT", "SHELL"}
PasswordModes == {"SIGNUP_PASS", "SIGNUP_CONFIRM", "LOGIN_PASS"}
Phase == {"start", "disk", "clearing", "cleared", "read", "loaded", "to_signup", "to_login", "prompt", "up", "halted"}
NothingPending == [name |-> "none", password |-> "none"]

\* The names that do not fit into User::name
Long == {name \in Names : Cut[name] # name}

SessionTypeOK ==
    /\ users \in Table
    /\ disk \in Table
    /\ current \in Index \cup {Nobody}
    /\ mode \in Mode
    /\ pending \in [name : Names \cup {"none"}, password : Passwords \cup {"none"}]
    /\ hidden \in BOOLEAN
    /\ phase \in Phase
    /\ present \in BOOLEAN
    /\ sector \in Table
    /\ failed \in BOOLEAN
    /\ early \in BOOLEAN
    /\ exposed \in BOOLEAN

-----------------------------------------------------------------------------
(* Prompts: each function knows the modes of its own dialogue only *)

ShowLogin(m) == hidden' = CASE m = "LOGIN_USER" -> FALSE
                            [] m = "LOGIN_PASS" -> TRUE
                            [] OTHER -> hidden

ShowSignup(m) == hidden' = CASE m = "SIGNUP_USER" -> FALSE
                             [] m \in {"SIGNUP_PASS", "SIGNUP_CONFIRM"} -> TRUE
                             [] OTHER -> hidden

ShowOnboard(m) == hidden' = IF m \in {"ONBOARD_USECASE", "ONBOARD_PACKAGES"} THEN FALSE ELSE hidden

\* Mutated form: the echo is not switched back on.
EnterShellMuted == mode' = "SHELL" /\ hidden' = hidden

\* enter_shell_mode
EnterShell == mode' = "SHELL" /\ hidden' = FALSE

-----------------------------------------------------------------------------
(* The user table *)

Active(table) == {i \in Index : table[i].active}

Named(table, name) == {i \in Active(table) : table[i].name = name}

\* find: the first account with this name, as a set that is empty if there is none
Find(table, name) == {i \in Named(table, name) : \A j \in Named(table, name) : i <= j}

\* verify: the account found, if the password is its password
Verify(name, password) == {i \in Find(users, name) : users[i].pass_hash = Hash[password]}

\* The pointer that find returns
Pointer(found) == IF found = {} THEN {Nobody} ELSE found

\* What Disk::read_sector and Disk::write_sector can return
ReadSector == IF present THEN BOOLEAN ELSE {FALSE}
WriteSector == IF present THEN BOOLEAN ELSE {FALSE}

\* Mutated form: the table goes to disk before the change.
SavedBefore(table) ==
    \E ok \in WriteSector :
        /\ users' = table
        /\ disk' = IF ok THEN users ELSE disk
        /\ failed' = (failed \/ (present /\ ~ok))

\* A change of the table and save_to_disk, whose result nobody looks at
Saved(table) ==
    \E ok \in WriteSector :
        /\ users' = table
        /\ disk' = IF ok THEN table ELSE disk
        /\ failed' = (failed \/ (present /\ ~ok))

Unsaved == UNCHANGED <<users, disk, failed>>

\* The entry that create uses for a new account
FreeEntry(i) == i \in Index \ Active(users) /\ \A j \in 1 .. i - 1 : j \in Active(users)

\* What create stores
NewUser(name, password) ==
    [name |-> Cut[name], pass_hash |-> Hash[password], usecase |-> "none", onboarded |-> FALSE, active |-> TRUE]

\* A change through current_user, which may be null, or point to an entry
\* that Users::init has emptied; what an unused entry holds is left out.
SetUsecase(i, usecase) ==
    IF i = Nobody THEN Unsaved
    ELSE Saved(IF i \in Active(users) THEN [users EXCEPT ![i].usecase = usecase] ELSE users)
CompleteOnboarding(i) ==
    IF i = Nobody THEN Unsaved
    ELSE Saved(IF i \in Active(users) THEN [users EXCEPT ![i].onboarded = TRUE] ELSE users)

\* Mutated form: sign-up whether or not there are accounts.
AlwaysSignup(table) == "SIGNUP_USER"

\* shell_init: sign-up if there is no account, else login
StartMode(table) == IF Active(table) = {} THEN "SIGNUP_USER" ELSE "LOGIN_USER"

ShowStart(m) == IF m = "SIGNUP_USER" THEN ShowSignup(m) ELSE ShowLogin(m)

-----------------------------------------------------------------------------

NoAccounts == [i \in Index |-> NoUser]

\* The memory of the kernel when _start begins
PowerOn ==
    /\ users' = NoAccounts
    /\ current' = Nobody
    /\ mode' = "SIGNUP_USER"
    /\ pending' = NothingPending
    /\ hidden' = FALSE
    /\ phase' = "start"
    /\ present' = FALSE
    /\ sector' = NoAccounts
    /\ exposed' = FALSE

\* The first boot of the machine
SessionInit ==
    /\ users = NoAccounts
    /\ disk = NoAccounts
    /\ current = Nobody
    /\ mode = "SIGNUP_USER"
    /\ pending = NothingPending
    /\ hidden = FALSE
    /\ phase = "start"
    /\ present = FALSE
    /\ sector = NoAccounts
    /\ failed = FALSE
    /\ early = FALSE
    /\ exposed = FALSE

\* `reboot' or a power failure
PowerFails == PowerOn /\ UNCHANGED <<disk, failed, early>>

\* Disk::init, with ata_identify: a drive answers or not
DiskInit ==
    /\ phase = "start"
    /\ phase' = "disk"
    /\ present' \in BOOLEAN
    /\ UNCHANGED <<users, disk, current, mode, pending, hidden, sector, failed, early, exposed>>

\* Users::init empties the table,
UsersClear ==
    /\ phase = "disk"
    /\ users' = NoAccounts
    /\ phase' = "clearing"
    /\ UNCHANGED <<disk, current, mode, pending, hidden, present, sector, failed, early, exposed>>

\* forgets the current user,
UsersForget ==
    /\ phase = "clearing"
    /\ current' = Nobody
    /\ phase' = "cleared"
    /\ UNCHANGED <<users, disk, mode, pending, hidden, present, sector, failed, early, exposed>>

\* reads the sector
UsersRead ==
    /\ phase = "cleared"
    /\ \E ok \in ReadSector :
         /\ sector' = IF ok THEN disk ELSE NoAccounts
         /\ failed' = (failed \/ (present /\ ~ok))
    /\ phase' = "read"
    /\ UNCHANGED <<users, disk, current, mode, pending, hidden, present, early, exposed>>

\* and copies the table in it.  A sector without accounts may have the magic
\* number or not.
UsersCopy ==
    /\ phase = "read"
    /\ users' \in IF Active(sector) = {} THEN {users, sector} ELSE {sector}
    /\ sector' = NoAccounts
    /\ phase' = "loaded"
    /\ UNCHANGED <<disk, current, mode, pending, hidden, present, failed, early, exposed>>

\* shell_init looks for accounts,
ShellLooks ==
    /\ phase = "loaded"
    /\ phase' = IF StartMode(users) = "SIGNUP_USER" THEN "to_signup" ELSE "to_login"
    /\ UNCHANGED <<users, disk, current, mode, pending, hidden, present, sector, failed, early, exposed>>

\* sets the mode,
ShellStarts ==
    /\ phase \in {"to_signup", "to_login"}
    /\ mode' = IF phase = "to_signup" THEN "SIGNUP_USER" ELSE "LOGIN_USER"
    /\ phase' = "prompt"
    /\ UNCHANGED <<users, disk, current, pending, hidden, present, sector, failed, early, exposed>>

\* prints the first prompt and only then switches the echo on; the compiler
\* has resolved the prompt function's test of the mode.
ShellPrompts ==
    /\ phase = "prompt"
    /\ hidden' = FALSE
    /\ exposed' = (mode \in PasswordModes)
    /\ phase' = "up"
    /\ UNCHANGED <<users, disk, current, mode, pending, present, sector, failed, early>>

SessionBoot ==
    \/ DiskInit
    \/ UsersClear \/ UsersForget \/ UsersRead \/ UsersCopy
    \/ ShellLooks \/ ShellStarts \/ ShellPrompts

-----------------------------------------------------------------------------
(* handle_line.  The conjuncts about bootVars, early and exposed are in Line. *)

\* An empty name, a short password or an invalid choice repeats the prompt.
PromptAgain ==
    /\ \/ mode \in {"SIGNUP_USER", "SIGNUP_PASS"} /\ ShowSignup(mode)
       \/ mode = "ONBOARD_USECASE" /\ ShowOnboard(mode)
       \/ mode = "LOGIN_USER" /\ ShowLogin(mode)
    /\ Unsaved /\ UNCHANGED <<current, mode, pending>>

SignupUser(name) ==
    /\ mode = "SIGNUP_USER"
    /\ pending' = [pending EXCEPT !.name = name]
    /\ mode' = "SIGNUP_PASS" /\ ShowSignup("SIGNUP_PASS")
    /\ Unsaved /\ current' = current

SignupPass(password) ==
    /\ mode = "SIGNUP_PASS"
    /\ password \notin Short
    /\ pending' = [pending EXCEPT !.password = password]
    /\ mode' = "SIGNUP_CONFIRM" /\ ShowSignup("SIGNUP_CONFIRM")
    /\ Unsaved /\ current' = current

\* MODE_SIGNUP_CONFIRM, Users::create included: the passwords differ, the
\* account is created, or the name is taken or the table full.  The new
\* account is looked up under the name that was typed, not the one stored.
SignupConfirm(password) ==
    /\ mode = "SIGNUP_CONFIRM"
    /\ \/ /\ password # pending.password
          /\ mode' = "SIGNUP_PASS" /\ ShowSignup("SIGNUP_PASS")
          /\ pending' = [pending EXCEPT !.password = "none"]
          /\ Unsaved /\ current' = current
       \/ \E i \in Index :
             /\ password = pending.password
             /\ Find(users, pending.name) = {} /\ FreeEntry(i)
             /\ Saved([users EXCEPT ![i] = NewUser(pending.name, password)])
             /\ current' \in Pointer(Find(users', pending.name))
             /\ pending' = [pending EXCEPT !.password = "none"]
             /\ mode' = "ONBOARD_USECASE" /\ ShowOnboard("ONBOARD_USECASE")
       \/ /\ password = pending.password
          /\ Find(users, pending.name) # {} \/ Active(users) = Index
          /\ mode' = "SIGNUP_USER" /\ ShowSignup("SIGNUP_USER")
          /\ Unsaved /\ UNCHANGED <<current, pending>>

ChooseUsecase(usecase) ==
    /\ mode = "ONBOARD_USECASE"
    /\ SetUsecase(current, usecase)
    /\ mode' = "ONBOARD_PACKAGES" /\ ShowOnboard("ONBOARD_PACKAGES")
    /\ UNCHANGED <<current, pending>>

\* MODE_ONBOARD_PACKAGES; for a user the answer only decides what is printed
ChoosePackages ==
    /\ mode = "ONBOARD_PACKAGES"
    /\ CompleteOnboarding(current)
    /\ EnterShell
    /\ UNCHANGED <<current, pending>>

\* The answer `y' reads the use case through the null pointer; isr_dispatch
\* halts the machine.
PackagesFault ==
    /\ mode = "ONBOARD_PACKAGES"
    /\ current = Nobody
    /\ phase' = "halted"
    /\ UNCHANGED <<users, disk, current, mode, pending, hidden, present, sector, failed, early, exposed>>

\* `halt'
Halt ==
    /\ mode = "SHELL"
    /\ phase' = "halted"
    /\ UNCHANGED <<users, disk, current, mode, pending, hidden, present, sector, failed, early, exposed>>

LoginUser(name) ==
    /\ mode = "LOGIN_USER"
    /\ pending' = [pending EXCEPT !.name = name]
    /\ mode' = "LOGIN_PASS" /\ ShowLogin("LOGIN_PASS")
    /\ Unsaved /\ current' = current

\* Mutated form: an interrupted onboarding is not taken up again.
StraightToShell(i) == EnterShell

\* MODE_LOGIN_PASS, after a successful login
AfterLogin(i) ==
    IF users[i].onboarded THEN EnterShell
    ELSE mode' = "ONBOARD_USECASE" /\ ShowOnboard("ONBOARD_USECASE")

LoginPass(password) ==
    LET verified == Verify(pending.name, password)
    IN  /\ mode = "LOGIN_PASS"
        /\ \/ /\ verified = {}
              /\ pending' = [pending EXCEPT !.name = "none"]
              /\ mode' = "LOGIN_USER" /\ ShowLogin("LOGIN_USER")
              /\ current' = current
           \/ \E i \in verified : current' = i /\ AfterLogin(i) /\ pending' = pending
        /\ Unsaved

\* `logout'
Logout ==
    /\ mode = "SHELL"
    /\ current' = Nobody
    /\ mode' = "LOGIN_USER" /\ ShowLogin("LOGIN_USER")
    /\ Unsaved /\ pending' = pending

\* `cls' calls shell_init: back to the login, with current_user as it was.
Cls ==
    /\ mode = "SHELL"
    /\ mode' = StartMode(users) /\ ShowStart(StartMode(users))
    /\ Unsaved /\ UNCHANGED <<current, pending>>

\* `nano', and the keys that leave the editor
Nano == mode = "SHELL" /\ mode' = "EDIT" /\ Unsaved /\ UNCHANGED <<current, pending, hidden>>
EditDone == mode = "EDIT" /\ mode' = "SHELL" /\ Unsaved /\ UNCHANGED <<current, pending, hidden>>

Typed ==
    \/ PromptAgain
    \/ \E name \in Names : SignupUser(name) \/ LoginUser(name)
    \/ \E password \in Passwords : SignupPass(password) \/ SignupConfirm(password) \/ LoginPass(password)
    \/ \E usecase \in UseCases : ChooseUsecase(usecase)
    \/ ChoosePackages
    \/ Logout
    \/ Cls
    \/ Nano

\* shell_init has set the mode.
Started == phase \in {"prompt", "up"}

\* A line, in whatever phase
Line ==
    /\ Typed
    /\ early' = (early \/ (~Started /\ mode = "SIGNUP_CONFIRM" /\ mode' = "ONBOARD_USECASE"))
    /\ exposed' = FALSE
    /\ UNCHANGED bootVars

\* A key that leaves the editor
EditorKey == EditDone /\ UNCHANGED <<bootVars, early, exposed>>

-----------------------------------------------------------------------------
(* Properties *)

\* From the time shell_init has set the mode, onboarding, shell and editor
\* have a user, so that Users::current() may be dereferenced there, whatever
\* was typed while the machine booted; the exception is the session of a
\* sign-up whose name was cut, which has none.  And nobody gets to the shell
\* with an account before its onboarding is complete, not over a power
\* failure in the middle of it either, unless the account was created during
\* boot.
SessionHasUser == Started =>
    /\ mode \in {"ONBOARD_USECASE", "ONBOARD_PACKAGES", "SHELL", "EDIT"} =>
         current \in Active(users) \/ (current = Nobody /\ pending.name \in Long)
    /\ mode = "ONBOARD_PACKAGES" /\ current # Nobody /\ ~early => users[current].usecase # "none"
    /\ mode \in {"SHELL", "EDIT"} /\ current # Nobody /\ ~early =>
         users[current].onboarded /\ users[current].usecase # "none"

\* As long as the disk works it holds the table as it is in memory after every
\* line, so that a power failure loses nothing.  An account created during
\* boot may be in only one of them: load_from_disk copies what it read before.
DiskIsCurrent == Started /\ present /\ ~failed /\ ~early => users = disk

\* There is never more than one account, in memory or on disk: sign-up starts
\* only with an empty table and is over once the account exists.  So create
\* never meets a taken name or a full table.  A sign-up that is completed
\* while the machine boots breaks this.
OneAccount == ~early =>
    /\ Cardinality(Active(users)) <= 1
    /\ Cardinality(Active(disk)) <= 1
    /\ Started /\ mode \in {"SIGNUP_USER", "SIGNUP_PASS", "SIGNUP_CONFIRM"} => Active(users) = {}

\* What is typed is hidden while a password is asked for, and otherwise
\* shown, although each prompt function only sets password_mode for its own
\* dialogue.  Two exceptions come from shell_init, which sets mode and echo at
\* different times: a name typed in between may be hidden, and the password
\* that is then asked for is shown until the next line.
HiddenInput ==
    /\ hidden => mode \in PasswordModes \/ (phase = "prompt" /\ mode \in {"SIGNUP_USER", "LOGIN_USER"})
    /\ mode \in PasswordModes => hidden \/ exposed

\* What the table in the sector stores of an account
Stored(user) == [name |-> user.name, secret |-> user.pass_hash, usecase |-> user.usecase, onboarded |-> user.onboarded]

Accounts == {Stored(disk[i]) : i \in Active(disk)}
Intact == ~failed /\ ~early

Store == INSTANCE AccountStore
    WITH Names <- {Cut[name] : name \in Names},
         Secrets <- {Hash[password] : password \in Passwords \ Short},
         store <- Accounts,
         intact <- Intact

\* The table on disk is an account store, whatever lines are typed, wherever
\* in them the power goes, and with a drive that answers at one boot and not
\* at the next: an account is never overwritten, keeps name and password and
\* is onboarded once.  An operation of the disk that fails breaks this (after
\* a read that failed shell_init starts a sign-up, which then saves over the
\* account), and so does an account that is created during boot.
IsAccountStore == Store!Spec
=============================================================================
