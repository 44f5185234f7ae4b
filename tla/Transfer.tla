------------------------------ MODULE Transfer ------------------------------
(***************************************************************************)
(* Directories: transfer.Prepare packs a tree into a bundle (a tar file    *)
(* and a manifest) while its files are being edited; a dispatch sends the  *)
(* manifest ahead and delivers the bundle that is served when the download *)
(* starts; transfer.Extract checks one against the other and puts each     *)
(* file in place while others use the target directory.                    *)
(*                                                                         *)
(* A file is its length.  Entries are numbered in the order of WalkDir.    *)
(***************************************************************************)
EXTENDS Naturals, FiniteSets, FiniteSetsExt

CONSTANTS
    Entry,       \* names that may be in the tree, 1 .. n
    Dir,         \* those that are directories
    MaxSize,     \* bound on the length of a file
    MaxEdits,    \* bound on the changes of the tree
    Absent,      \* no such file
    Other,       \* a file in the target that Extract did not write
    RenameRace   \* may one appear between Extract's last look and its rename?

ASSUME TransferConstants ==
    /\ IsFiniteSet(Entry) /\ Entry = 1 .. Cardinality(Entry) /\ Dir \subseteq Entry
    /\ MaxSize \in Nat \ {0} /\ MaxEdits \in Nat
    /\ Absent # Other /\ {Absent, Other} \cap Nat = {}
    /\ RenameRace \in BOOLEAN

VARIABLES
    tree,      \* the source: the length of each entry
    edits,
    walk,      \* Prepare: where it is, in which entry, bytes of it copied
    listed,    \* entries that WalkDir has still to visit
    packed,    \* what the tar file holds: each entry's header and length
    bundle,    \* the Source being served, or its absence
    spec,      \* TaskSpec: manifest and overwrite
    archive,   \* the bundle that was downloaded
    ext,       \* Extract: where it is, in which entry, bytes in its temp file
    expected,  \* the map of the same name
    target     \* the target directory; a directory in it has length 0

prepVars == <<walk, listed, packed, bundle>>
extVars == <<ext, expected, target>>
transferVars == <<tree, edits, prepVars, spec, archive, extVars>>

Size == 0 .. MaxSize
None == [e \in {} |-> 0]

Record == [hdr : Size, len : Size]
Packed == UNION {[S -> Record] : S \in SUBSET Entry}
Manifest == UNION {[S -> Size] : S \in SUBSET Entry}

\* The tar file's size, a header counting as one.
TarSize(p) == MapThenSumSet(LAMBDA e : 1 + p[e].hdr, DOMAIN p)
TarSizes == {TarSize(p) : p \in Packed}

(***************************************************************************)
(* The one type invariant.                                                 *)
(***************************************************************************)
TransferTypeOK ==
    /\ tree \in [Entry -> Size \cup {Absent}]
    /\ edits \in 0 .. MaxEdits
    /\ walk \in [at : {"idle", "info", "copy"}, cur : 0 .. Cardinality(Entry), pos : Size]
    /\ listed \subseteq Entry
    /\ packed \in Packed /\ bundle \in Packed
    /\ spec \in [manifest : Manifest, overwrite : BOOLEAN, size : TarSizes \cup {0}]
    /\ archive \in Packed
    /\ ext \in [at : {"idle", "next", "temp", "copy", "lstat", "rename", "ok", "failed"},
                cur : 0 .. Cardinality(Entry), tmp : Size \cup {Absent}]
    /\ expected \subseteq Entry
    /\ target \in [Entry -> Size \cup {Absent, Other}]

TransferInit ==
    /\ tree \in [Entry -> {1, Absent}] /\ \A d \in Dir : tree[d] # Absent
    /\ edits = 0
    /\ walk = [at |-> "idle", cur |-> 0, pos |-> 0]
    /\ listed = {} /\ packed = None /\ bundle = None
    /\ spec = [manifest |-> None, overwrite |-> FALSE, size |-> 0]
    /\ archive = None
    /\ ext = [at |-> "idle", cur |-> 0, tmp |-> Absent]
    /\ expected = {}
    /\ target \in [Entry -> {Absent, Other, 0}]
    /\ \A e \in Entry \ Dir : target[e] # 0

First(S) == CHOOSE e \in S : \A f \in S : e <= f

-----------------------------------------------------------------------------
(* The tree *)

\* Somebody writes, truncates, creates or deletes a file.
Edit(e) ==
    /\ edits < MaxEdits /\ e \notin Dir
    /\ edits' = edits + 1
    /\ \E s \in Size \cup {Absent} : s # tree[e] /\ tree' = [tree EXCEPT ![e] = s]
    /\ UNCHANGED <<prepVars, spec, archive, extVars>>

-----------------------------------------------------------------------------
(* Prepare *)

\* Preparing anew retires what was served.
Prepare ==
    /\ walk.at = "idle" /\ ext.at = "idle"
    /\ walk' = [at |-> "info", cur |-> 0, pos |-> 0]
    /\ listed' = {e \in Entry : tree[e] # Absent}
    /\ packed' = None /\ bundle' = None
    /\ UNCHANGED <<tree, edits, spec, archive, extVars>>

\* tar.Writer refuses to go on while bytes of the entry before are missing.
Flushed == \A e \in DOMAIN packed : packed[e].len >= packed[e].hdr

Visit ==
    /\ walk.at = "info" /\ listed # {}
    /\ Flushed
    /\ LET e == First(listed)
           size == IF e \in Dir THEN 0 ELSE tree[e]
       IN /\ tree[e] # Absent
          /\ listed' = listed \ {e}
          /\ packed' = [f \in DOMAIN packed \cup {e} |->
                           IF f = e THEN [hdr |-> size, len |-> 0] ELSE packed[f]]
          /\ walk' = [at |-> IF e \in Dir THEN "info" ELSE "copy", cur |-> e, pos |-> 0]
    /\ UNCHANGED <<tree, edits, bundle, spec, archive, extVars>>

\* A file that was deleted after it was opened can still be read; its length
\* is then taken to be the one in the header.
Available == IF tree[walk.cur] = Absent THEN packed[walk.cur].hdr ELSE tree[walk.cur]

\* CopyContext: read what is there now; a write past the header's size fails.
CopyIn ==
    /\ walk.at = "copy"
    /\ IF walk.pos >= Available
         THEN walk' = [walk EXCEPT !.at = "info"] /\ UNCHANGED packed
         ELSE /\ walk.pos < packed[walk.cur].hdr
              /\ walk' = [walk EXCEPT !.pos = @ + 1]
              /\ packed' = [packed EXCEPT ![walk.cur].len = @ + 1]
    /\ UNCHANGED <<tree, edits, listed, bundle, spec, archive, extVars>>

PrepareDoneUnclosed ==
    /\ walk.at = "info" /\ listed = {}
    /\ bundle' = packed
    /\ walk' = [at |-> "idle", cur |-> 0, pos |-> 0]
    /\ packed' = None
    /\ UNCHANGED <<tree, edits, listed, spec, archive, extVars>>

\* The error of tw.Close, which flushes too, is looked at.
PrepareDone ==
    /\ walk.at = "info" /\ listed = {}
    /\ Flushed
    /\ bundle' = packed
    /\ walk' = [at |-> "idle", cur |-> 0, pos |-> 0]
    /\ packed' = None
    /\ UNCHANGED <<tree, edits, listed, spec, archive, extVars>>

\* Any error, or the context ended: the temporary directory is removed.
PrepareFails ==
    /\ walk.at # "idle"
    /\ walk' = [at |-> "idle", cur |-> 0, pos |-> 0]
    /\ listed' = {} /\ packed' = None
    /\ UNCHANGED <<tree, edits, bundle, spec, archive, extVars>>

-----------------------------------------------------------------------------
(* The dispatch in between *)

\* spec and the probe: the manifest of the bundle being served.
Dispatch(overwrite) ==
    /\ bundle # None /\ ext.at = "idle" /\ spec.manifest = None
    /\ spec' = [manifest |-> [e \in DOMAIN bundle |-> bundle[e].hdr],
                overwrite |-> overwrite, size |-> TarSize(bundle)]
    /\ UNCHANGED <<tree, edits, prepVars, archive, extVars>>

\* ProbeTarget of one entry: a directory may be there already, a file only with
\* leave to overwrite it.
Fits(e) ==
    \/ target[e] = Absent
    \/ e \in Dir /\ target[e] # Other
    \/ e \notin Dir /\ spec.overwrite

\* "start" compares name and size with what is served by now; the download
\* delivers that (Swarm).  Extract begins by probing the target again.
Download ==
    /\ spec.manifest # None /\ ext.at = "idle"
    /\ bundle # None /\ TarSize(bundle) = spec.size
    /\ archive' = bundle
    /\ \A e \in DOMAIN spec.manifest : Fits(e)
    /\ ext' = [ext EXCEPT !.at = "next"]
    /\ expected' = DOMAIN spec.manifest
    /\ UNCHANGED <<tree, edits, prepVars, spec, target>>

-----------------------------------------------------------------------------
(* Extract *)

Extracting == ext.at \in {"next", "temp", "copy", "lstat", "rename"}

Goto(at) == ext' = [ext EXCEPT !.at = at]

\* Records are read in order; the entries up to ext.cur are behind.
Left == {e \in DOMAIN archive : e > ext.cur}

Matches(e) == e \in expected /\ archive[e].hdr = spec.manifest[e]

\* tr.TransferNext and the comparison with the manifest; a directory is made at once.
NextUnmatched ==
    /\ ext.at = "next" /\ Left # {}
    /\ LET e == First(Left)
       IN /\ expected' = expected \ {e}
          /\ e \in Dir => target[e] # Other
          /\ target' = IF e \in Dir THEN [target EXCEPT ![e] = 0] ELSE target
          /\ ext' = [at |-> IF e \in Dir THEN "next" ELSE "temp", cur |-> e, tmp |-> Absent]
    /\ UNCHANGED <<tree, edits, prepVars, spec, archive>>

NextRecord ==
    /\ ext.at = "next" /\ Left # {}
    /\ LET e == First(Left)
       IN /\ Matches(e)
          /\ expected' = expected \ {e}
          /\ e \in Dir => target[e] # Other
          /\ target' = IF e \in Dir THEN [target EXCEPT ![e] = 0] ELSE target
          /\ ext' = [at |-> IF e \in Dir THEN "next" ELSE "temp", cur |-> e, tmp |-> Absent]
    /\ UNCHANGED <<tree, edits, prepVars, spec, archive>>

CreateTemp ==
    /\ ext.at = "temp"
    /\ ext' = [ext EXCEPT !.at = "copy", !.tmp = 0]
    /\ UNCHANGED <<tree, edits, prepVars, spec, archive, expected, target>>

\* CopyContext, then Chmod, Sync and Close.
CopyOut ==
    /\ ext.at = "copy"
    /\ IF ext.tmp < archive[ext.cur].len
         THEN ext' = [ext EXCEPT !.tmp = @ + 1]
         ELSE Goto("lstat")
    /\ UNCHANGED <<tree, edits, prepVars, spec, archive, expected, target>>

LstatSkipped ==
    /\ ext.at = "lstat"
    /\ Goto("rename")
    /\ UNCHANGED <<tree, edits, prepVars, spec, archive, expected, target>>

\* Without leave to overwrite, a file that is there now stops the extraction.
Lstat ==
    /\ ext.at = "lstat"
    /\ spec.overwrite \/ target[ext.cur] = Absent
    /\ Goto("rename")
    /\ UNCHANGED <<tree, edits, prepVars, spec, archive, expected, target>>

RenameFile ==
    /\ ext.at = "rename"
    /\ target' = [target EXCEPT ![ext.cur] = ext.tmp]
    /\ ext' = [ext EXCEPT !.at = "next", !.tmp = Absent]
    /\ UNCHANGED <<tree, edits, prepVars, spec, archive, expected>>

ExtractDone ==
    /\ ext.at = "next" /\ Left = {}
    /\ Goto(IF expected = {} THEN "ok" ELSE "failed")
    /\ UNCHANGED <<tree, edits, prepVars, spec, archive, expected, target>>

FailRenaming ==
    /\ Extracting
    /\ ext' = [ext EXCEPT !.at = "failed", !.tmp = Absent]
    /\ target' = IF ext.tmp = Absent THEN target
                 ELSE [target EXCEPT ![ext.cur] = ext.tmp]
    /\ UNCHANGED <<tree, edits, prepVars, spec, archive, expected>>

\* An error or the context's end, at any point: the temp file is removed, the
\* files already in place stay.
ExtractFails ==
    /\ Extracting
    /\ ext' = [ext EXCEPT !.at = "failed", !.tmp = Absent]
    /\ UNCHANGED <<tree, edits, prepVars, spec, archive, expected, target>>

\* Another program creates a file in the target directory.
Appears(e) ==
    /\ target[e] = Absent
    /\ RenameRace \/ ~(ext.at = "rename" /\ ext.cur = e)
    /\ target' = [target EXCEPT ![e] = Other]
    /\ UNCHANGED <<tree, edits, prepVars, spec, archive, ext, expected>>

-----------------------------------------------------------------------------
TransferNext ==
    \/ \E e \in Entry : Edit(e) \/ Appears(e)
    \/ Prepare \/ Visit \/ CopyIn \/ PrepareDone \/ PrepareFails
    \/ \E o \in BOOLEAN : Dispatch(o)
    \/ Download
    \/ NextRecord \/ CreateTemp \/ CopyOut \/ Lstat \/ RenameFile
    \/ ExtractDone \/ ExtractFails

TransferSpec == TransferInit /\ [][TransferNext]_transferVars

-----------------------------------------------------------------------------
(* Properties *)

\* A bundle that Prepare hands out is whole although files grow, shrink or
\* vanish while they are packed: each entry has as many bytes as its header,
\* and so the manifest, says.
BundleWhole == \A e \in DOMAIN bundle : bundle[e].len = bundle[e].hdr

\* At every moment, whatever fails, a file of the target is either what it was
\* or a whole file of the manifest, and an extraction that ended leaves no
\* temporary file.
NeverTorn ==
    /\ TransferTypeOK
    /\ \A e \in Entry \ Dir : target[e] \in Nat =>
          e \in DOMAIN spec.manifest /\ target[e] = spec.manifest[e]
    /\ ~Extracting => ext.tmp = Absent

\* An extraction that succeeds has put every entry of the manifest in place,
\* also when the bundle was prepared again, with the same size, after the
\* manifest was sent.
SuccessIsManifest ==
    ext.at = "ok" => \A e \in DOMAIN spec.manifest : target[e] = spec.manifest[e]

\* Without leave to overwrite, no file that others put into the target is
\* replaced, before the dispatch or while the files are being extracted.
NotReplaced ==
    [][~spec.overwrite =>
          \A e \in Entry : target[e] = Other => target'[e] = Other]_transferVars

=============================================================================
