------------------------------- MODULE MCBoot -------------------------------
(* Boot with a password and one that is too short for sign-up *)
EXTENDS Boot

HashOf == [p |-> 11, q |-> 12]

\* The name nn is too long and is stored as n.
CutOf == [n |-> "n", nn |-> "n"]

\* The whole of the keyboard and of the mouse does not have to be combined
\* with every state of the accounts.  It is followed on a machine without
\* account as long as no line is typed; elsewhere Enter, and Ctrl and a letter
\* in the editor.
Plain ==
    /\ held = {} \/ (mode = "EDIT" /\ held = {"LCtrl"})
    /\ second = NoByte /\ sent = 0
    /\ data.is = "scan" => data.key = "Enter" \/ mode = "EDIT"
Followed == Plain \/ (mode = "SIGNUP_USER" /\ pending = NothingPending /\ disk = NoAccounts)

\* A boot in which Mouse::init was disturbed may leave the machine without
\* keyboard; it is not followed.  An account that was created during boot and
\* a disk that fails are followed, but not both at once.
Bounded == Followed /\ ~disturbed /\ ~(early /\ failed)
=============================================================================
