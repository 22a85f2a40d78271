----------------------------- MODULE HandleService -----------------------------
(***************************************************************************)
(* What a file handle promises to the client that holds it, without the     *)
(* table, the paths and the file system behind it.                          *)
(*                                                                         *)
(* A handle is granted for one file, and no two files get equal handles.  A *)
(* call through a handle the service knows is about the handle's file.  The *)
(* service comes to know a handle when it grants it, and forgets all of     *)
(* them at once: when a client mounts, or when the service is restarted.    *)
(***************************************************************************)

CONSTANTS
    Data,      \* what the bytes of a handle can be
    File       \* the files of the server

VARIABLES
    granted,   \* every handle ever granted, with its file
    known,     \* the bytes of the handles the service knows
    answer     \* the last answer: what happened, and the file it is about

vars == <<granted, known, answer>>

Handle == [data : Data, file : File]

NoAnswer == [what |-> "none"]
Refusal  == [what |-> "refused"]
Nothing  == [what |-> "empty"]
Done(f)  == [what |-> "done", file |-> f]

(* h can be granted: its bytes do not already mean another file. *)
Grantable(h) == \A g \in granted : g.data = h.data => g = h

(* A client mounts: all other handles are forgotten. *)
Mount(h) ==
    /\ answer' = Done(h.file)
    /\ known' = {h.data}
    /\ Grantable(h)
    /\ granted' = granted \cup {h}

(* A client looks up in the directory of handle g and is granted h. *)
LookUp(g, h) ==
    /\ answer' = Done(g.file)
    /\ g.data \in known
    /\ known' = known \cup {h.data}
    /\ Grantable(h)
    /\ granted' = granted \cup {h}

(* A client lists the directory or reads the file of handle g. *)
Use(g) ==
    /\ g.data \in known
    /\ answer' = Done(g.file)
    /\ UNCHANGED <<granted, known>>

(* A lookup through a handle that was forgotten grants nothing. *)
LookUpForgotten(g) ==
    /\ g.data \notin known
    /\ answer' = Nothing
    /\ UNCHANGED <<granted, known>>

(* A call fails; a mount that fails may have forgotten the handles. *)
Refuse ==
    /\ answer' = Refusal
    /\ known' \in {known, {}}
    /\ UNCHANGED granted

(* No call is answered; a restart forgets the handles. *)
NoCall ==
    /\ answer' = NoAnswer
    /\ known' \in {known, {}}
    /\ UNCHANGED granted

Init ==
    /\ granted = {}
    /\ known = {}
    /\ answer = NoAnswer

Next ==
    \/ NoCall
    \/ Refuse
    \/ \E g \in granted : Use(g) \/ LookUpForgotten(g)
    \/ \E h \in Handle : Mount(h)
    \/ \E g \in granted, h \in Handle : LookUp(g, h)

Spec == Init /\ [][Next]_vars
===============================================================================
