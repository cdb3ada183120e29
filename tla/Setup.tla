-------------------------------- MODULE Setup -------------------------------
(***************************************************************************)
(* Connecting agents to Leteo and taking them out again (setup and         *)
(* uninstall of src/setup/mod.rs), around one instruction file that a      *)
(* person writes in too and that two agents may share, and the replacing   *)
(* of a file in one step (src/files.rs).                                   *)
(*                                                                         *)
(* The file is a sequence of lines: the markers Begin and End, the         *)
(* Protocol between them, and numbers, each a line of the person's.        *)
(* Blank lines and line endings are left out.  One setup or uninstall runs *)
(* at a time; it may be killed or fail between any two steps.              *)
(***************************************************************************)
EXTENDS Naturals, Sequences, FiniteSets, SequencesExt

CONSTANTS
    Agent,
    FoundFile,  \* what the instruction file may say before Leteo comes
    MaxEdits,   \* bound: edits of the person
    MaxRuns,    \* bound: setups and uninstalls
    MaxLine,    \* bound: lines of the file that the person edits
    Begin, Protocol, End,
    None

VARIABLES
    file,      \* the instruction file, or None
    temp,      \* the temporary file beside it, or None
    server,    \* agents whose MCP configuration names Leteo
    hooks,     \* agents whose hooks are registered
    readers,   \* agents that take their instructions from this file
    owned,     \* is it a file of Leteo's own?
    run,       \* what runs, or None
    told,      \* agents whose setup wrote the block
    notes,     \* the person's lines outside of the block
    damaged,   \* did the person take a line of the block away?
    careful,   \* does the person keep off while something runs?
    edits, runs

config == <<server, hooks>>
world == <<readers, owned, careful>>
past == <<told, notes, damaged>>
counts == <<edits, runs>>
vars == <<file, temp, config, run, world, past, counts>>

Line == {Begin, Protocol, End} \cup 0..MaxEdits
Content == Seq(Line) \cup {None}

Run == [does : {"setup", "uninstall"}, agent : Agent, instructions : BOOLEAN,
        step : {"server", "read", "write", "rename", "hooks"}]

TypeOK ==
    /\ file \in Content /\ temp \in Content
    /\ server \in SUBSET Agent /\ hooks \in SUBSET Agent /\ told \in SUBSET Agent
    /\ readers \in SUBSET Agent /\ owned \in BOOLEAN
    /\ run = None \/ (run.now \in Run /\ run.was \in Content)
    /\ notes \in SUBSET (0..MaxEdits) /\ damaged \in BOOLEAN /\ careful \in BOOLEAN
    /\ edits \in 0..MaxEdits /\ runs \in 0..MaxRuns

Lines(content) == IF content = None THEN <<>> ELSE content

Init ==
    /\ file \in FoundFile
    /\ temp = None
    /\ server = {} /\ hooks = {} /\ told = {}
    /\ readers \in SUBSET Agent /\ owned \in BOOLEAN
    /\ owned => Cardinality(readers) = 1 /\ file = None
    /\ run = None
    /\ notes = Range(Lines(file)) \cap Nat
    /\ damaged = FALSE
    /\ careful \in BOOLEAN
    /\ edits = 0 /\ runs = 0

-----------------------------------------------------------------------------
(* The text of the file.                                                   *)

\* The first place of a line from i on, or 0.
Find(s, line, i) ==
    IF \E j \in i..Len(s) : s[j] = line
    THEN CHOOSE j \in i..Len(s) : s[j] = line /\ \A k \in i..(j - 1) : s[k] # line
    ELSE 0

\* strip_memory_protocol_blocks: what is between a marker that opens and the
\* next one that closes goes.
Strip(s) ==
    LET from[i \in 1..(Len(s) + 1)] ==
          LET b == Find(s, Begin, i)
              e == IF b = 0 THEN 0 ELSE Find(s, End, b)
          IN IF e = 0 THEN SubSeq(s, i, Len(s)) ELSE SubSeq(s, i, b - 1) \o from[e + 1]
    IN from[1]

Block == <<Begin, Protocol, End>>

\* upsert_memory_protocol: a block that never closes is closed where it opened.
Upsert(s) ==
    LET b == Find(s, Begin, 1)
        e == IF b = 0 THEN 0 ELSE Find(s, End, b)
        after == IF e = 0 THEN b + 1 ELSE e + 1
    IN IF b = 0 THEN s \o Block
       ELSE SubSeq(s, 1, b - 1) \o Block \o Strip(SubSeq(s, after, Len(s)))

HasBlock(s) == Strip(s) # s

-----------------------------------------------------------------------------
(* setup and uninstall.                                                    *)

At(step) == run # None /\ run.now.step = step

Does(what) == run.now.does = what

Me == run.now.agent

Goes(step) == run' = [run EXCEPT !.now.step = step]

Start(does, a, i) ==
    /\ run = None
    /\ runs < MaxRuns /\ runs' = runs + 1
    /\ run' = [now |-> [does |-> does, agent |-> a, instructions |-> i, step |-> "server"],
               was |-> None]
    /\ UNCHANGED <<file, temp, config, world, past, edits>>

\* The server goes into the agent's MCP configuration or out of it.
WriteServer ==
    /\ At("server")
    /\ server' = IF Does("setup") THEN server \cup {Me} ELSE server \ {Me}
    /\ told' = IF Does("setup") THEN told ELSE told \ {Me}
    /\ Goes(IF run.now.instructions THEN "read" ELSE "hooks")
    /\ UNCHANGED <<file, temp, hooks, world, notes, damaged, counts>>

\* Mutant: whoever else reads the file is not asked.
KeptFor_Nobody(a) == {}

\* still_configured_sharer.
KeptFor(a) == IF a \in readers THEN (readers \ {a}) \cap server ELSE {}

\* read_optional.  The file of an agent that does not read this one is left
\* out; a removal from no file, or for a file another agent reads, is over.
ReadFile ==
    /\ At("read")
    /\ run' = [run EXCEPT !.was = file,
         !.now.step = IF Me \notin readers \/ (Does("uninstall") /\ (file = None \/ KeptFor(Me) # {}))
                      THEN "hooks" ELSE "write"]
    /\ UNCHANGED <<file, temp, config, world, past, counts>>

\* What it is to say.  A file of Leteo's own that says nothing else goes.
Desired ==
    IF Does("setup") THEN Upsert(Lines(run.was))
    ELSE IF owned /\ Strip(run.was) = <<>> THEN None
    ELSE Strip(run.was)

\* Mutant: fs::write, which truncates the file and then fills it.
WriteTemp_InPlace ==
    /\ At("write")
    /\ \E k \in 0..Len(Lines(Desired)) : file' = SubSeq(Lines(Desired), 1, k)
    /\ temp' = Desired
    /\ Goes("rename")
    /\ UNCHANGED <<config, world, past, counts>>

\* apply_content: nothing to write, or write_then_rename, or remove_file.
WriteTemp ==
    /\ At("write")
    /\ IF Desired = run.was THEN temp' = temp /\ Goes("hooks")
       ELSE temp' = Desired /\ Goes("rename")
    /\ told' = IF Does("setup") /\ Desired = run.was THEN told \cup {Me} ELSE told
    /\ UNCHANGED <<file, config, world, notes, damaged, counts>>

\* rename_replacing.  The block is whole again.
Rename ==
    /\ At("rename")
    /\ file' = temp /\ temp' = None
    /\ told' = IF Does("setup") THEN told \cup {Me} ELSE told
    /\ damaged' = (damaged /\ Does("uninstall"))
    /\ Goes("hooks")
    /\ UNCHANGED <<config, world, notes, counts>>

\* The hooks are registered, or they were not asked for, or taken out.
WriteHooks ==
    /\ At("hooks")
    /\ hooks' \in IF Does("uninstall") THEN {hooks \ {Me}} ELSE {hooks, hooks \cup {Me}}
    /\ run' = None
    /\ UNCHANGED <<file, temp, server, world, past, counts>>

\* An error, a refusal or a kill: what is done stays done.
Stops ==
    /\ run # None
    /\ run' = None /\ temp' = None
    /\ UNCHANGED <<file, config, world, past, counts>>

-----------------------------------------------------------------------------
(* The person.                                                             *)

Edits ==
    /\ edits < MaxEdits /\ edits' = edits + 1
    /\ careful => run = None

Inside(s, i) == \E b, e \in 1..Len(s) : b < i /\ i <= e /\ s[b] = Begin /\ s[e] = End

\* A new line in front of line i, or at the end.
AddLine(i) ==
    LET s == Lines(file) IN
    /\ i <= Len(s) + 1
    /\ Edits
    /\ file' = InsertAt(s, i, edits + 1)
    /\ notes' = IF Inside(s, i) THEN notes ELSE notes \cup {edits + 1}
    /\ UNCHANGED <<temp, config, run, world, told, damaged, runs>>

\* Any line, one of the block too.
DropLine(i) ==
    /\ i <= Len(Lines(file))
    /\ Edits
    /\ file' = RemoveAt(file, i)
    /\ notes' = notes \ {file[i]}
    /\ damaged' = (damaged \/ file[i] \notin Nat)
    /\ UNCHANGED <<temp, config, run, world, told, runs>>

Next ==
    \/ \E a \in Agent : Start("uninstall", a, TRUE) \/ \E i \in BOOLEAN : Start("setup", a, i)
    \/ WriteServer \/ ReadFile \/ WriteTemp \/ Rename \/ WriteHooks \/ Stops
    \/ \E i \in 1..MaxLine : AddLine(i) \/ DropLine(i)

Spec == Init /\ [][Next]_vars

-----------------------------------------------------------------------------
(* Properties.                                                             *)

(***************************************************************************)
(* What a person wrote around the block stays in the file, whatever of the *)
(* block was deleted by hand and wherever a setup or an uninstall was cut  *)
(* off; unless the person writes between the read and the rename           *)
(* (upsert_memory_protocol, remove_memory_protocol, files::replace).       *)
(***************************************************************************)
NotesSurvive == careful => notes \subseteq Range(Lines(file))

(***************************************************************************)
(* An agent that was set up with its instructions and still names Leteo    *)
(* has the block in the file it reads, although another agent that shares  *)
(* the file is taken out (still_configured_sharer).                        *)
(***************************************************************************)
InstructedHasBlock ==
    careful /\ ~damaged => \A a \in told \cap readers : HasBlock(Lines(file))

=============================================================================
