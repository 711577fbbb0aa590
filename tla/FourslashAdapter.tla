--------------------------- MODULE FourslashAdapter ---------------------------
(***************************************************************************)
(* The host of one fourslash test and the view the server has of its files   *)
(* (tsz-adapter.cjs, TszClientHost and the adapter around it).  The host      *)
(* keeps the scripts of the test and a virtual disk; the server hears of a    *)
(* file only when the adapter opens, changes or closes it.                   *)
(* The base class of the host is TypeScript's own harness: it is external.    *)
(***************************************************************************)
EXTENDS Naturals

CONSTANTS
    Path, Text,
    Root,          \* the scripts that getFilenames names: node_modules is not among them
    Config,        \* package.json and tsconfig.json
    Ancestors(_),  \* the configs above a path
    Projects,      \* the tests: what the disk holds, and which of it is a script
    MaxCalls,      \* bound: the calls of a test
    Absent, Spoilt \* no text; a text changed at positions of another

\* The configs above a path are configs, and what a disk holds are texts.
ASSUME AdapterAssumption ==
    /\ \A p \in Path : Ancestors(p) \subseteq Config
    /\ \A project \in Projects : project.disk \in [Path -> Text \cup {Absent}]
    /\ Absent \notin Text

VARIABLES
    script,  \* scriptInfos: the text of each script
    disk,    \* the virtual file system
    server,  \* the files open in the server, with their text
    opened,  \* _openedFiles
    known,   \* _allKnownFiles, or {} before the first rename
    calls
adapterVars == <<script, disk, server, opened, known, calls>>

Scripts == {p \in Path : script[p] # Absent}
Call == calls < MaxCalls /\ calls' = calls + 1

\* The constructor opens the root scripts, and does not track that it did.
InitiallyOpen(scripts) == [p \in Path |-> IF scripts[p] # Absent /\ p \in Root \ Config THEN scripts[p] ELSE Absent]

AdapterInit ==
    /\ \E project \in Projects :
           /\ disk = project.disk
           /\ script = [p \in Path |-> IF p \in project.scripts THEN project.disk[p] ELSE Absent]
    /\ server = InitiallyOpen(script)
    /\ opened = {} /\ known = {} /\ calls = 0

-----------------------------------------------------------------------------
(* openFile *)

\* What the server hears of: texts replace whatever it has, closed files go.
Told(view, texts) == [p \in Path |-> IF texts[p] # Absent THEN texts[p] ELSE view[p]]
Without(view, closed) == [p \in Path |-> IF p \in closed THEN Absent ELSE view[p]]

\* A file that is not open: a script with the text it has, a config with the text on
\* the disk, which is read for those above f before the scripts are gone through.
NotOpenYet(p, f, scripts, ondisk, found) ==
    LET configs == UNION {Ancestors(q) : q \in {f} \cup {q \in Path : scripts[q] # Absent} \cup found}
    IN IF p \in Ancestors(f) /\ ondisk[p] # Absent THEN ondisk[p]
       ELSE IF scripts[p] # Absent THEN scripts[p]
       ELSE IF p \in configs THEN ondisk[p] ELSE Absent

\* Mutant: a file that is open is not sent again.
Sent_Once(f, content, open, scripts, ondisk, found) ==
    [p \in Path |-> IF p \in open THEN Absent
                    ELSE IF p = f /\ content # Absent THEN content
                    ELSE NotOpenYet(p, f, scripts, ondisk, found)]

\* openKnownFile, of every file openFile names: an explicit content is always sent.
Sent(f, content, open, scripts, ondisk, found) ==
    [p \in Path |-> IF p = f /\ content # Absent THEN content
                    ELSE IF p \in open THEN Absent
                    ELSE NotOpenYet(p, f, scripts, ondisk, found)]

\* found: the discovered files, when a rename includes them.
OpenFileWith(f, content, found) ==
    LET scripts == IF content = Absent THEN script ELSE [script EXCEPT ![f] = content]
        ondisk == IF content # Absent /\ script[f] = Absent THEN [disk EXCEPT ![f] = content] ELSE disk
        closed == opened \ ({p \in Path : scripts[p] # Absent /\ p \in Root} \cup {f})
        texts == Sent(f, content, opened \ closed, scripts, ondisk, found)
    IN /\ script' = scripts
       /\ disk' = ondisk
       /\ server' = Told(Without(server, closed), texts)
       /\ opened' = (opened \ closed) \cup {p \in Path : texts[p] # Absent}

\* goTo.file(name) or goTo.file(name, content)
OpenFile ==
    /\ Call
    /\ \E f \in Path \ Config, content \in Text \cup {Absent} :
           (content # Absent \/ f \in Scripts) /\ OpenFileWith(f, content, {})
    /\ UNCHANGED known

\* getRenameInfo with preferences: the file is opened with its own text, and the
\* files found on the disk, at the first such call, are included.
RenameInfo ==
    /\ Call
    /\ known' = IF known = {} THEN {p \in Path : disk[p] # Absent} ELSE known
    /\ \E f \in Scripts \ Config : OpenFileWith(f, script[f], known')

\* editScript: the base class changes the script and writes the disk, the client
\* tells the server the change, which it makes to the text it has.
EditScript ==
    /\ Call
    /\ \E f \in Scripts \ Config, text \in Text :
           /\ script' = [script EXCEPT ![f] = text]
           /\ disk' = [disk EXCEPT ![f] = text]
           /\ server' = [server EXCEPT ![f] =
                  CASE @ = Absent -> Absent [] @ = script[f] -> text [] OTHER -> Spoilt]
    /\ UNCHANGED <<opened, known>>

\* The harness renames a file, to a path no file of the test has had: the server is
\* not told.
RenameFile ==
    /\ Call
    /\ \E old \in Scripts \ Config, new \in Path \ Config :
           /\ script[new] = Absent /\ disk[new] = Absent /\ server[new] = Absent
           /\ script' = [script EXCEPT ![new] = script[old], ![old] = Absent]
           /\ disk' = [disk EXCEPT ![new] = disk[old], ![old] = Absent]
    /\ UNCHANGED <<server, opened, known>>

AdapterNext == OpenFile \/ RenameInfo \/ EditScript \/ RenameFile
AdapterSpec == AdapterInit /\ [][AdapterNext]_adapterVars

-----------------------------------------------------------------------------
\* A script that is open in the server has the text the host has, whatever was
\* opened, edited and renamed before: "the host snapshot and the content sent to
\* tsz-server stay identical" (openFile, editScript, assertTextConsistent).
ServerSeesTheHost == \A p \in Scripts \ Config : server[p] \in {script[p], Absent}
=============================================================================
