------------------------------ MODULE RuleCache ------------------------------
(***************************************************************************)
(* The persistent cache of synthesized rules (catopt_core/rulecache.py),   *)
(* shared by processes through one directory: synthesize_rules_cached      *)
(* loads the file of its key, or derives the rules and stores them by      *)
(* writing a temporary file, whose name is the key's too, and renaming it. *)
(*                                                                         *)
(* A call is for parent rules, of which only what their hooks do matters:  *)
(* cache_key sees no more of it than Signature, which hooks may share.     *)
(* The derived rules are determined by the parents, and are named after    *)
(* them.  A file is an inode that names point to: opening for writing      *)
(* truncates the inode the name has, renaming moves the name, and a        *)
(* descriptor keeps its inode.                                             *)
(***************************************************************************)
EXTENDS Naturals, FiniteSets

CONSTANTS
  Procs,         \* processes sharing the directory
  Hooks,         \* what the hooks of the parent rules may do
  Keys,          \* cache keys
  Signature,     \* _hook_sig: what the key sees of the hooks
  Chunks,        \* a file is written in so many writes
  MaxCalls,      \* bound: calls of synthesize_rules_cached
  MaxCrashes,    \* bound: processes killed in the middle of a call
  None           \* no file, or nothing written there

ASSUME ChunksArePositive == Chunks \in Nat \ {0}
ASSUME BoundsAreNat == MaxCalls \in Nat /\ MaxCrashes \in Nat
ASSUME NoneIsNothing == None \notin Hooks /\ None \notin Nat
ASSUME SignatureIsAFunction == Signature \in [Hooks -> Keys]

Inodes    == 1 .. MaxCalls
Positions == 1 .. Chunks

VARIABLES
  pc,       \* the step a process is at
  parents,  \* the rules of its call
  fd,       \* the inode it has open
  pos,      \* chunks it has read or written
  got,      \* what it has read
  outcome,  \* how its last call ended, and whose the rules it gave are, by part
  content,  \* inode -> position -> whose derivation is written there
  tmp,      \* key -> the inode of .rules-<key>.tmp
  final,    \* key -> the inode of rules-<key>.json
  made,     \* inodes created
  torn,     \* inodes with a writer killed since they were last truncated
  calls, crashes

procVars == <<pc, parents, fd, pos, got, outcome>>
fileVars == <<content, tmp, final, made>>
boundVars == <<torn, calls, crashes>>
vars == <<procVars, fileVars, boundVars>>

Blank == [c \in Positions |-> None]
Idle  == [kind |-> "none", rules |-> None]
Key(p) == Signature[parents[p]]

\* A file with a hole does not parse, one whose parts are of one derivation does,
\* and one that writers of several derivations mixed may.
Complete(file) == \A c \in Positions : file[c] \in Hooks
Uniform(file)  == \E h \in Hooks : \A c \in Positions : file[c] = h

TypeOK ==
  /\ pc \in [Procs -> {"idle", "load", "read", "derive", "open", "write", "rename"}]
  /\ parents \in [Procs -> Hooks]
  /\ fd \in [Procs -> Inodes \cup {None}]
  /\ pos \in [Procs -> 0 .. Chunks]
  /\ got \in [Procs -> [Positions -> Hooks \cup {None}]]
  /\ outcome \in [Procs -> [kind : {"none", "hit", "derived", "raised", "killed"},
                            rules : [Positions -> Hooks] \cup {None}]]
  /\ content \in [Inodes -> [Positions -> Hooks \cup {None}]]
  /\ tmp \in [Keys -> Inodes \cup {None}]
  /\ final \in [Keys -> Inodes \cup {None}]
  /\ made \in 0 .. MaxCalls /\ torn \subseteq Inodes
  /\ calls \in 0 .. MaxCalls /\ crashes \in 0 .. MaxCrashes

Init ==
  /\ pc = [p \in Procs |-> "idle"]
  /\ parents \in [Procs -> Hooks]
  /\ fd = [p \in Procs |-> None] /\ pos = [p \in Procs |-> 0]
  /\ got = [p \in Procs |-> Blank]
  /\ outcome = [p \in Procs |-> Idle]
  /\ content = [i \in Inodes |-> Blank]
  /\ tmp = [k \in Keys |-> None] /\ final = [k \in Keys |-> None]
  /\ made = 0 /\ torn = {} /\ calls = 0 /\ crashes = 0

-----------------------------------------------------------------------------
Call(p) ==
  /\ pc[p] = "idle" /\ calls < MaxCalls
  /\ calls' = calls + 1
  /\ \E h \in Hooks : parents' = [parents EXCEPT ![p] = h]
  /\ outcome' = [outcome EXCEPT ![p] = Idle]
  /\ pc' = [pc EXCEPT ![p] = "load"]
  /\ UNCHANGED <<fd, pos, got, fileVars, torn, crashes>>

\* load: the file does not exist.
NoFile(p) ==
  /\ pc[p] = "load" /\ final[Key(p)] = None
  /\ pc' = [pc EXCEPT ![p] = "derive"]
  /\ UNCHANGED <<parents, fd, pos, got, outcome, fileVars, boundVars>>

OpenToRead(p) ==
  /\ pc[p] = "load" /\ final[Key(p)] # None
  /\ fd' = [fd EXCEPT ![p] = final[Key(p)]]
  /\ pos' = [pos EXCEPT ![p] = 0] /\ got' = [got EXCEPT ![p] = Blank]
  /\ pc' = [pc EXCEPT ![p] = "read"]
  /\ UNCHANGED <<parents, outcome, fileVars, boundVars>>

\* Bug: the end of the file is found one read late.
ReadPast(p) ==
  /\ pc[p] = "read" /\ pos[p] <= Chunks
  /\ pos' = [pos EXCEPT ![p] = @ + 1]
  /\ UNCHANGED <<pc, parents, fd, got, outcome, fileVars, boundVars>>
ReadChunk(p) ==
  /\ pc[p] = "read" /\ pos[p] < Chunks
  /\ pos' = [pos EXCEPT ![p] = @ + 1]
  /\ got' = [got EXCEPT ![p][pos'[p]] = content[fd[p]][pos'[p]]]
  /\ UNCHANGED <<pc, parents, fd, outcome, fileVars, boundVars>>

\* What was read is the answer, or, when it is corrupt, a miss.
\* Bug: what can be parsed of a corrupt file is the answer.
LoadPart(p) ==
  /\ pc[p] = "read" /\ pos[p] = Chunks
  /\ fd' = [fd EXCEPT ![p] = None]
  /\ pc' = [pc EXCEPT ![p] = "idle"]
  /\ outcome' = [outcome EXCEPT ![p] = [kind |-> "hit", rules |-> got[p]]]
  /\ UNCHANGED <<parents, pos, got, fileVars, boundVars>>
\* Bug: a corrupt file is removed by who reads it.
LoadUnlinks(p) ==
  /\ pc[p] = "read" /\ pos[p] = Chunks
  /\ fd' = [fd EXCEPT ![p] = None]
  /\ \/ /\ Complete(got[p])
        /\ pc' = [pc EXCEPT ![p] = "idle"] /\ final' = final
        /\ outcome' = [outcome EXCEPT ![p] = [kind |-> "hit", rules |-> got[p]]]
     \/ /\ ~ Uniform(got[p])
        /\ pc' = [pc EXCEPT ![p] = "derive"] /\ outcome' = outcome
        /\ final' = [final EXCEPT ![Key(p)] = None]
  /\ UNCHANGED <<parents, pos, got, content, tmp, made, boundVars>>
Load(p) ==
  /\ pc[p] = "read" /\ pos[p] = Chunks
  /\ fd' = [fd EXCEPT ![p] = None]
  /\ \/ /\ Complete(got[p])
        /\ pc' = [pc EXCEPT ![p] = "idle"]
        /\ outcome' = [outcome EXCEPT ![p] = [kind |-> "hit", rules |-> got[p]]]
     \/ /\ ~ Uniform(got[p])
        /\ pc' = [pc EXCEPT ![p] = "derive"] /\ outcome' = outcome
  /\ UNCHANGED <<parents, pos, got, fileVars, boundVars>>

\* M.synthesize_rules, the long step.
Derive(p) ==
  /\ pc[p] = "derive"
  /\ pc' = [pc EXCEPT ![p] = "open"]
  /\ UNCHANGED <<parents, fd, pos, got, outcome, fileVars, boundVars>>

\* tmp.write_text: open, truncating, ...
OpenToWrite(p) ==
  /\ pc[p] = "open"
  /\ LET k == Key(p)
         i == IF tmp[k] = None THEN made + 1 ELSE tmp[k]
     IN  /\ i \in Inodes  \* bound, never reached: a call makes one at most
         /\ tmp' = [tmp EXCEPT ![k] = i]
         /\ fd' = [fd EXCEPT ![p] = i]
         /\ content' = [content EXCEPT ![i] = Blank]
         /\ made' = IF tmp[k] = None THEN made + 1 ELSE made
  /\ torn' = torn \ {fd'[p]}
  /\ pos' = [pos EXCEPT ![p] = 0]
  /\ pc' = [pc EXCEPT ![p] = "write"]
  /\ UNCHANGED <<parents, got, outcome, final, calls, crashes>>

\* ... write at the descriptor's own offset, into whatever the inode holds, ...
WriteChunk(p) ==
  /\ pc[p] = "write" /\ pos[p] < Chunks
  /\ pos' = [pos EXCEPT ![p] = @ + 1]
  /\ content' = [content EXCEPT ![fd[p]][pos'[p]] = parents[p]]
  /\ UNCHANGED <<pc, parents, fd, got, outcome, tmp, final, made, boundVars>>

\* ... and close.
\* Bug: what is buffered is not flushed before the rename.
CloseUnflushed(p) ==
  /\ pc[p] = "write"
  /\ fd' = [fd EXCEPT ![p] = None]
  /\ pc' = [pc EXCEPT ![p] = "rename"]
  /\ UNCHANGED <<parents, pos, got, outcome, fileVars, boundVars>>
Close(p) ==
  /\ pc[p] = "write" /\ pos[p] = Chunks
  /\ fd' = [fd EXCEPT ![p] = None]
  /\ pc' = [pc EXCEPT ![p] = "rename"]
  /\ UNCHANGED <<parents, pos, got, outcome, fileVars, boundVars>>

\* tmp.replace, and the derived rules are returned.
Rename(p) ==
  /\ pc[p] = "rename" /\ tmp[Key(p)] # None
  /\ final' = [final EXCEPT ![Key(p)] = tmp[Key(p)]]
  /\ tmp' = [tmp EXCEPT ![Key(p)] = None]
  /\ outcome' = [outcome EXCEPT ![p] = [kind |-> "derived", rules |-> [c \in Positions |-> parents[p]]]]
  /\ pc' = [pc EXCEPT ![p] = "idle"]
  /\ UNCHANGED <<parents, fd, pos, got, content, made, boundVars>>

\* Another process renamed the temporary file: FileNotFoundError.
RenameFails(p) ==
  /\ pc[p] = "rename" /\ tmp[Key(p)] = None
  /\ outcome' = [outcome EXCEPT ![p] = [kind |-> "raised", rules |-> None]]
  /\ pc' = [pc EXCEPT ![p] = "idle"]
  /\ UNCHANGED <<parents, fd, pos, got, fileVars, boundVars>>

Crash(p) ==
  /\ pc[p] # "idle" /\ crashes < MaxCrashes
  /\ crashes' = crashes + 1
  /\ torn' = IF pc[p] = "write" THEN torn \cup {fd[p]} ELSE torn
  /\ fd' = [fd EXCEPT ![p] = None]
  /\ outcome' = [outcome EXCEPT ![p] = [kind |-> "killed", rules |-> None]]
  /\ pc' = [pc EXCEPT ![p] = "idle"]
  /\ UNCHANGED <<parents, pos, got, fileVars, calls>>

Step(p) ==
  \/ NoFile(p) \/ OpenToRead(p) \/ ReadChunk(p) \/ Load(p) \/ Derive(p)
  \/ OpenToWrite(p) \/ WriteChunk(p) \/ Close(p) \/ Rename(p) \/ RenameFails(p)
Next == \E p \in Procs : Call(p) \/ Step(p) \/ Crash(p)

Spec == Init /\ [][Next]_vars

-----------------------------------------------------------------------------
(* Properties *)

\* A corrupt file is "a clean miss - never a partially-loaded set" (load), and no
\* other key's rules come with it: whatever writers share the temporary file, and
\* whoever is killed, nothing is missing from what a call returns, and all of it
\* was derived from parents of the call's own key.  They need not be its own
\* parents, when several share the key.
LoadsAreWhole ==
  \A p \in Procs : outcome[p].kind \in {"hit", "derived"} =>
    \A c \in Positions :
      outcome[p].rules[c] \in Hooks /\ Signature[outcome[p].rules[c]] = Key(p)

\* The published file is whole, or is about to be: what it lacks is being
\* written by a process that truncated it before it was renamed, unless a
\* process was killed while it wrote to it.
TornOnlyByWriters ==
  \A k \in Keys : \A c \in Positions :
    final[k] # None /\ final[k] \notin torn /\ content[final[k]][c] = None =>
      \E p \in Procs : pc[p] = "write" /\ fd[p] = final[k] /\ pos[p] < c

\* A store that loses the race for the rename has lost it to a store of the
\* same key: the file it meant to publish is there.
RaisesOnlyWhenStored ==
  \A p \in Procs :
    (\/ pc[p] = "rename" /\ tmp[Key(p)] = None
     \/ outcome[p].kind = "raised")
    => final[Key(p)] # None
=============================================================================
