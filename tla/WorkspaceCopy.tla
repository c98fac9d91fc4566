--------------------------- MODULE WorkspaceCopy ---------------------------
(***************************************************************************)
(* _copy_tree of execution/workspace.py: a source tree is copied with a    *)
(* stack of directories still to be listed.  A listing comes in any order; *)
(* entries with an excluded name are skipped unseen, links and special     *)
(* files are refused, files are counted before they are opened and bytes   *)
(* before they are written, block by block.  Any system call may fail.     *)
(*                                                                         *)
(* The source is quiescent, as the module's docstring asks: the tree and   *)
(* the limits are chosen once, in Init.                                    *)
(***************************************************************************)
EXTENDS Naturals, Sequences, FiniteSetsExt, Functions

CONSTANTS
  MaxNodes,   \* bound: entries of the source tree, apart from its root 0
  Kinds,      \* what the entries of the modelled trees are
  Sizes,      \* the sizes of files
  Block,      \* _BLOCK_BYTES
  FileLimits, \* values of WorkspaceOptions.max_files
  ByteLimits, \* values of WorkspaceOptions.max_copy_bytes
  None

ASSUME CopyAssumption ==
  /\ MaxNodes \in Nat /\ Block \in Nat \ {0}
  /\ Kinds \subseteq {"directory", "file", "link", "special"}
  /\ Sizes \subseteq Nat
  /\ FileLimits \subseteq Nat \ {0} /\ ByteLimits \subseteq Nat \ {0}
  /\ None \notin Nat

VARIABLES
  parent, kind, size, hidden,  \* the source tree; hidden: the name is an excluded one
  max_files, max_copy_bytes,   \* the limits
  pending,   \* the stack of directories to be listed, the next one last
  unseen,    \* entries of the open listing that have not come yet
  file,      \* the file being copied, or None
  files, copied,  \* the counters
  made,      \* directories made in the copy
  written,   \* bytes written to each file made in the copy
  outcome    \* "copying", "copied", or why the copy was given up

source == <<parent, kind, size, hidden, max_files, max_copy_bytes>>
target == <<made, written>>
vars == <<source, pending, unseen, file, files, copied, target, outcome>>

Nodes == 1..MaxNodes

(* Trees: the parent of an entry is the root or a directory before it.     *)
Init ==
  /\ parent \in {p \in [Nodes -> 0..MaxNodes] : \A n \in Nodes : p[n] < n}
  /\ kind \in {k \in [Nodes -> Kinds] :
                 \A n \in Nodes : parent[n] # 0 => k[parent[n]] = "directory"}
  /\ size \in {s \in [Nodes -> Sizes \cup {0}] :
                 \A n \in Nodes : s[n] \in IF kind[n] = "file" THEN Sizes ELSE {0}}
  /\ hidden \in [Nodes -> BOOLEAN]
  /\ max_files \in FileLimits /\ max_copy_bytes \in ByteLimits
  /\ pending = <<0>> /\ unseen = {} /\ file = None
  /\ files = 0 /\ copied = 0
  /\ made = {} /\ written = << >>
  /\ outcome = "copying"

Listed(d) == {n \in Nodes : parent[n] = d}

(* The program is about to take an entry, respectively a directory.        *)
Idle == outcome = "copying" /\ file = None
Entry(e) == Idle /\ e \in unseen /\ unseen' = unseen \ {e} /\ UNCHANGED source

Refuse(reason) ==
  /\ outcome' = reason
  /\ UNCHANGED <<pending, file, copied, target>>

(* pending.pop, target.mkdir, os.scandir                                   *)
OpenDirectory ==
  /\ Idle /\ unseen = {} /\ pending # << >>
  /\ LET d == pending[Len(pending)]
     IN made' = made \cup {d} /\ unseen' = Listed(d)
  /\ pending' = SubSeq(pending, 1, Len(pending) - 1)
  /\ UNCHANGED <<source, file, files, copied, written, outcome>>

Skip(e) ==
  /\ Entry(e) /\ hidden[e]
  /\ UNCHANGED <<pending, file, files, copied, target, outcome>>

(* Mutant: the kind is looked at before the name.                          *)
RefuseLinkFirst(e) ==
  /\ Entry(e) /\ kind[e] = "link"
  /\ Refuse("link") /\ UNCHANGED files

RefuseLink(e) ==
  /\ Entry(e) /\ ~hidden[e] /\ kind[e] = "link"
  /\ Refuse("link") /\ UNCHANGED files

RefuseSpecial(e) ==
  /\ Entry(e) /\ ~hidden[e] /\ kind[e] = "special"
  /\ Refuse("special") /\ UNCHANGED files

QueueDirectory(e) ==
  /\ Entry(e) /\ ~hidden[e] /\ kind[e] = "directory"
  /\ pending' = Append(pending, e)
  /\ UNCHANGED <<file, files, copied, target, outcome>>

OpenFile(e) ==
  /\ Entry(e) /\ ~hidden[e] /\ kind[e] = "file"
  /\ files' = files + 1 /\ files' <= max_files
  /\ file' = e
  /\ written' = [n \in DOMAIN written \cup {e} |-> IF n = e THEN 0 ELSE written[n]]
  /\ UNCHANGED <<pending, copied, made, outcome>>

TooManyFiles(e) ==
  /\ Entry(e) /\ ~hidden[e] /\ kind[e] = "file"
  /\ files' = files + 1 /\ files' > max_files
  /\ Refuse("too many files")

(* reader.read: what is left of the file, at most a block.                 *)
Data == Min({Block, size[file] - written[file]})

(* Mutant: a block is written before it is counted against the limit.      *)
CopyBlockFirst ==
  /\ outcome = "copying" /\ file # None /\ Data > 0
  /\ copied' = copied + Data
  /\ written' = [written EXCEPT ![file] = @ + Data]
  /\ outcome' = IF copied' <= max_copy_bytes THEN outcome ELSE "too many bytes"
  /\ UNCHANGED <<source, pending, unseen, file, files, made>>

CopyBlock ==
  /\ outcome = "copying" /\ file # None /\ Data > 0
  /\ copied' = copied + Data /\ copied' <= max_copy_bytes
  /\ written' = [written EXCEPT ![file] = @ + Data]
  /\ UNCHANGED <<source, pending, unseen, file, files, made, outcome>>

TooManyBytes ==
  /\ outcome = "copying" /\ file # None
  /\ copied' = copied + Data /\ copied' > max_copy_bytes
  /\ outcome' = "too many bytes"
  /\ UNCHANGED <<source, pending, unseen, file, files, target>>

(* The read that returns nothing; both files are closed.                   *)
CloseFile ==
  /\ outcome = "copying" /\ file # None /\ Data = 0
  /\ file' = None
  /\ UNCHANGED <<source, pending, unseen, files, copied, target, outcome>>

(* The stack is empty; the home and tmp directories are made beside.       *)
Complete ==
  /\ Idle /\ unseen = {} /\ pending = << >>
  /\ outcome' = "copied"
  /\ UNCHANGED <<source, pending, unseen, file, files, copied, target>>

(* An OSError of any call of the loop.                                     *)
Fails ==
  /\ outcome = "copying" /\ outcome' = "os error"
  /\ UNCHANGED <<source, pending, unseen, file, files, copied, target>>

TakeEntry(e) ==
  \/ Skip(e) \/ RefuseLink(e) \/ RefuseSpecial(e) \/ QueueDirectory(e)
  \/ OpenFile(e) \/ TooManyFiles(e)

Step ==
  \/ OpenDirectory \/ (\E e \in Nodes : TakeEntry(e))
  \/ CopyBlock \/ TooManyBytes \/ CloseFile \/ Complete

Ended == outcome # "copying" /\ UNCHANGED vars

Next == Step \/ Fails \/ Ended

Spec == Init /\ [][Next]_vars
-----------------------------------------------------------------------------
(* Every variable of the copy has its type.                                *)
TypeOK ==
  /\ parent \in [Nodes -> 0..MaxNodes] /\ kind \in [Nodes -> Kinds]
  /\ size \in [Nodes -> Sizes \cup {0}] /\ hidden \in [Nodes -> BOOLEAN]
  /\ max_files \in FileLimits /\ max_copy_bytes \in ByteLimits
  /\ pending \in Seq(0..MaxNodes) /\ unseen \subseteq Nodes /\ file \in Nodes \cup {None}
  /\ files \in Nat /\ copied \in Nat
  /\ made \subseteq 0..MaxNodes
  /\ DOMAIN written \subseteq Nodes /\ \A n \in DOMAIN written : written[n] \in Nat
  /\ outcome \in {"copying", "copied", "link", "special", "too many files",
                  "too many bytes", "os error"}

(* What a copy of this tree has to contain: the entries below no excluded  *)
(* name and, as a tree has them, only directories.                         *)
Included ==
  LET in[n \in 0..MaxNodes] == n = 0 \/ (~hidden[n] /\ in[parent[n]])
  IN {n \in Nodes : in[n]}

IncludedOf(k) == {n \in Included : kind[n] = k}

(* Whether a tree is copied does not depend on the order of the listings:  *)
(* a copy is complete, excluded names apart, and within the limits, and a  *)
(* refusal names something that is true of the tree.                       *)
OutcomeIsOfTheTree ==
  /\ outcome = "copied" =>
       /\ IncludedOf("link") = {} /\ IncludedOf("special") = {}
       /\ made = {0} \cup IncludedOf("directory")
       /\ written = Restrict(size, IncludedOf("file"))
  /\ outcome \in {"link", "special"} => IncludedOf(outcome) # {}
  /\ outcome = "too many files" => Cardinality(IncludedOf("file")) > max_files
  /\ outcome = "too many bytes" => SumFunctionOnSet(size, IncludedOf("file")) > max_copy_bytes

(* At no moment does the copy hold more than the limits allow, or anything *)
(* that is excluded or no regular file or directory; nothing is made       *)
(* outside a directory of the copy.                                        *)
StaysWithinLimits ==
  /\ Cardinality(DOMAIN written) <= max_files
  /\ SumFunction(written) <= max_copy_bytes
  /\ made \subseteq {0} \cup IncludedOf("directory")
  /\ DOMAIN written \subseteq IncludedOf("file")
  /\ \A n \in (made \ {0}) \cup DOMAIN written : parent[n] \in made
=============================================================================
