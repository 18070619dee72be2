------------------------------ MODULE ConfigAgent ------------------------------
(***************************************************************************)
(* The configuration agent (config_agent/service.py) on one pack: propose   *)
(* reads the editable files, asks a model for the new content of one of     *)
(* them and validates it; apply compares, validates again and writes.  The  *)
(* client keeps the proposal in between, and is free to alter it.  The      *)
(* owner edits the files of the pack by hand as well.  Nothing is locked:   *)
(* edits by hand and by other agents come between any two of these steps.   *)
(***************************************************************************)

CONSTANTS Agents,           \* requests, or runs of the command-line script
          Files,            \* EDITABLE_FILES
          Others,           \* what the other files of the pack may hold
          Contents,         \* what an editable file may hold
          Empty,            \* what a missing file and a truncated one read as
          Loads,            \* Loads[o]: the packs that load_pack accepts with others o
          NotEditable,      \* a name that is not one of Files
          NotCopied

Packs == [Files -> Contents]

ASSUME ConfigAgentAssumption ==
    /\ Empty \in Contents
    /\ Loads \in [Others -> SUBSET Packs]
    /\ NotEditable \notin Files
    /\ NotCopied \notin Packs \cup Others

VARIABLES
    pack,       \* the editable files
    other,      \* the other files
    loc,        \* each agent with its proposal
    overtaken   \* history: the agents that validated, or write, while what they
                \* copied of the pack is no longer as they copied it

vars == <<pack, other, loc, overtaken>>

Local == [ pc    : {"idle", "ask", "held", "compare", "copy", "open", "write"},
           file  : Files \cup {NotEditable},
           old   : Packs,                       \* the content that was read, and its hash
           new   : Contents,
           files : Packs \cup {NotCopied},      \* the throwaway copy of the editable files
           rest  : Others \cup {NotCopied} ]    \* and that of the others

Fresh(pc) == [ pc |-> pc, file |-> NotEditable, old |-> [f \in Files |-> Empty], new |-> Empty,
               files |-> NotCopied, rest |-> NotCopied ]

Init == /\ other \in Others
        /\ pack \in Loads[other]
        /\ loc = [a \in Agents |-> Fresh("idle")]
        /\ overtaken = {}

At(a, pc) == loc[a].pc = pc
Goto(a, pc) == loc' = [loc EXCEPT ![a].pc = pc]
GiveUp(a) == loc' = [loc EXCEPT ![a] = Fresh("idle")]
Applying(a) == loc[a].pc \in {"compare", "copy", "open", "write"}

TypeOK == /\ pack \in Packs /\ other \in Others /\ loc \in [Agents -> Local]
          /\ \A a \in Agents : Applying(a) => loc[a].file \in Files
          /\ overtaken \in SUBSET Agents

\* The pack with one file replaced
With(f, content) == [pack EXCEPT ![f] = content]

-----------------------------------------------------------------------------

\* load_current_files
Propose(a) == /\ At(a, "idle")
              /\ loc' = [loc EXCEPT ![a] = [Fresh("ask") EXCEPT !.old = pack]]
              /\ UNCHANGED <<pack, other>>

\* The answer of the model, or what the client makes of it: with "fail" it is
\* a proposal all the same.  Of what was read it keeps the hash of that file.
Hold(a, f, content) ==
    /\ At(a, "ask")
    /\ loc' = [loc EXCEPT ![a] = [Fresh("held") EXCEPT
                 !.file = f, !.new = content,
                 !.old = [g \in Files |-> IF g = f THEN loc[a].old[g] ELSE Empty]]]
    /\ UNCHANGED <<pack, other>>

IsEditable(a) == loc[a].file \in Files

StartApply(a) == /\ At(a, "held")
                 /\ IF IsEditable(a) THEN Goto(a, "compare") ELSE GiveUp(a)
                 /\ UNCHANGED <<pack, other>>

\* base_hash against the file as it is now
IsAsRead(a) == pack[loc[a].file] = loc[a].old[loc[a].file]

Compare(a) == /\ At(a, "compare")
              /\ IF IsAsRead(a) THEN Goto(a, "copy") ELSE GiveUp(a)
              /\ UNCHANGED <<pack, other>>

\* validate_proposed_file copies the pack as it is now, file by file and in any
\* order, and puts the new content in its place.
CopyFiles(a) == /\ At(a, "copy") /\ loc[a].files = NotCopied
                /\ loc' = [loc EXCEPT ![a].files = With(loc[a].file, loc[a].new)]
                /\ UNCHANGED <<pack, other>>

CopyRest(a) == /\ At(a, "copy") /\ loc[a].rest = NotCopied
               /\ loc' = [loc EXCEPT ![a].rest = other]
               /\ UNCHANGED <<pack, other>>

\* Fault: the new content is checked without the rest of the pack.
IsValid_Alone(a) == \E o \in Others : loc[a].files \in Loads[o]

\* load_pack on the copy
IsValid(a) == loc[a].files \in Loads[loc[a].rest]

Validate(a) ==
    /\ At(a, "copy") /\ loc[a].files # NotCopied /\ loc[a].rest # NotCopied
    /\ IF IsValid(a)
       THEN loc' = [loc EXCEPT ![a] = [@ EXCEPT !.pc = "open", !.files = NotCopied, !.rest = NotCopied]]
       ELSE GiveUp(a)
    /\ UNCHANGED <<pack, other>>

\* open(..., "w") truncates the file; its content comes with the close.
Open(a) == /\ At(a, "open")
           /\ pack' = With(loc[a].file, Empty)
           /\ Goto(a, "write")
           /\ UNCHANGED other

Write(a) == /\ At(a, "write")
            /\ pack' = With(loc[a].file, loc[a].new)
            /\ GiveUp(a)
            /\ UNCHANGED other

\* The client loses interest, the model fails, or the agent is killed, even
\* between truncating the file and writing it.
Stop(a) == /\ ~At(a, "idle")
           /\ GiveUp(a)
           /\ UNCHANGED <<pack, other>>

\* The owner edits the pack by hand, at any moment, and is free to break it.
EditByHand == /\ \/ other' \in Others /\ UNCHANGED pack
                 \/ /\ \E f \in Files, content \in Contents : pack' = With(f, content)
                    /\ UNCHANGED other
              /\ UNCHANGED loc

Step == \/ EditByHand
        \/ \E a \in Agents :
              \/ Propose(a)
              \/ \E f \in Files \cup {NotEditable}, content \in Contents : Hold(a, f, content)
              \/ StartApply(a) \/ Compare(a)
              \/ CopyFiles(a) \/ CopyRest(a) \/ Validate(a)
              \/ Open(a) \/ Write(a)
              \/ Stop(a)

\* The file that is to be replaced may change: the copy has the new content there.
HasFiles(a) == loc[a].files # NotCopied \/ loc[a].pc \in {"open", "write"}
HasRest(a) == loc[a].rest # NotCopied \/ loc[a].pc \in {"open", "write"}

Overtakes(a) == \/ HasFiles(a) /\ \E f \in Files \ {loc[a].file} : pack'[f] # pack[f]
                \/ HasRest(a) /\ other' # other

Next == /\ Step
        /\ overtaken' = {a \in Agents : (HasFiles(a) \/ HasRest(a))'
                                          /\ (a \in overtaken \/ Overtakes(a))}

Spec == Init /\ [][Next]_vars

-----------------------------------------------------------------------------

\* "a proposal can't be applied on top of a file that changed underneath it"
\* (service.py:98-100): what a proposal is about to overwrite is what its author
\* saw.  The code does not keep this: the file may change after it was compared.
AppliedOnBase == \A a \in Agents : At(a, "open") => pack[loc[a].file] = loc[a].old[loc[a].file]

\* "never trust a caller-supplied validation result": however old the proposal
\* is, and whatever became of the pack since it was made, the pack loads with it,
\* unless a file other than the one it replaces was changed in the short time
\* between the copy that was validated and the write.  What happens to the file
\* itself in that time does not matter, whoever truncates or writes it.
AppliedLoads == [][\A a \in Agents : Write(a) /\ a \notin overtaken => pack' \in Loads[other]]_vars
=============================================================================
