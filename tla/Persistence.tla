---------------------------- MODULE Persistence ----------------------------
(***************************************************************************)
(* The persistent file of a server (storage.py, storage_save.py,           *)
(* storage_load.py).  The dispatch thread saves the persistent entries     *)
(* when the dirty flag is set.  A save goes through a temporary file and   *)
(* keeps the previous file as a backup; the three survive a crash, and a   *)
(* new server loads the first.  The user may save to another file at any   *)
(* time: that file is not modelled, but the flag it shares is.             *)
(*                                                                         *)
(* The messages that the operations hand to the dispatcher play no part    *)
(* here.  The values are what the file can hold; a definition of an RPC    *)
(* is not saved.                                                           *)
(***************************************************************************)
EXTENDS Storage, SequencesExt

CONSTANTS
    NoFile,      \* a file that does not exist
    Partial,     \* a file that is being written
    Unreadable,  \* names with a ':' or '=', at which the reader cuts the line
    ReadBack,    \* the value that is read where a value was written
    MaxOps, MaxManual, MaxFaults, MaxCrashes   \* bounds

ASSUME PersistenceAssumption ==
    /\ IsFiniteSet(Names)
    /\ Unreadable \subseteq Names
    /\ ReadBack \in [Values -> Values]
    /\ \A v \in Values : ReadBack[ReadBack[v]] = ReadBack[v]
    /\ {MaxOps, MaxManual, MaxFaults, MaxCrashes} \subseteq Nat

Contents == UNION {[S -> Values] : S \in SUBSET Names}

ASSUME FileAssumption ==
    NoFile # Partial /\ {NoFile, Partial} \cap Contents = {}

VARIABLES
    store, dirty,  \* the storage, m_persistent_dirty
    main, bak, tmp, \* m_persist_filename, with .bak and with .tmp
    pc,            \* where the dispatch thread is in a save
    snapshot,      \* the entries it saves
    saved,         \* what the last complete save wrote
    ops, manual, faults, crashes

files == << main, bak, tmp >>
bounds == << ops, manual, faults, crashes >>
vars == << store, dirty, main, bak, tmp, pc, snapshot, saved, bounds >>

-----------------------------------------------------------------------------
(* Reading and writing the file *)

Empty == [n \in {} |-> NoValue]

\* What _getPersistentEntries collects and save_entries writes.
PersistentEntries(s) ==
    [n \in {x \in Names : Has(s, x) /\ s.entries[x].flags} |->
        s.entries[n].value]

\* load_entries: no file, or one without its section, gives no entries.  A
\* line whose key does not match is skipped, and [""] is read as [].
Read(contents) ==
    IF contents \in {NoFile, Partial} THEN Empty
    ELSE [n \in DOMAIN contents \ Unreadable |-> ReadBack[contents[n]]]

\* _loadEntries with persistent set, into the storage of a server that starts.
\* What it has to send goes nowhere: no dispatcher is set yet.
LoadEntries(s, entries) ==
    LET new == SetToSeq({n \in DOMAIN entries : s.entries[n].id = NoId})
        IdOf(n) == IF s.entries[n].id # NoId THEN s.entries[n].id
                   ELSE Len(s.idmap)
                        + (CHOOSE k \in DOMAIN new : new[k] = n) - 1
        Loaded(n) == [s.entries[n] EXCEPT !.value = entries[n], !.flags = TRUE,
                                          !.id = IdOf(n), !.seq = IncrementSeqnum(@)]
    IN  [s EXCEPT
           !.entries = [n \in Names |->
                IF n \in DOMAIN entries THEN Loaded(n) ELSE s.entries[n]],
           !.idmap = @ \o new]

\* startServer: whatever is wrong with the file, the server starts.
Started(contents) == LoadEntries(NewStore(TRUE), Read(contents))

\* The first start, or a later one that finds the file of an earlier server.
Init ==
    /\ saved \in {NoFile} \cup Contents
    /\ store = Started(saved) /\ dirty = FALSE
    /\ main = saved /\ bak = NoFile /\ tmp = NoFile
    /\ pc = "idle" /\ snapshot = Empty
    /\ ops = 0 /\ manual = 0 /\ faults = 0 /\ crashes = 0

-----------------------------------------------------------------------------
(* What changes the entries *)

\* What a client may send.
ClientMessages(s) ==
    LET known  == {n \in Names : Has(s, n)}
        Id(n)  == s.entries[n].id
        Seq1(n) == IncrementSeqnum(s.entries[n].seq)
    IN  UNION {
          {EntryAssign(n, NoId, 1, v, f) :
              n \in Names, v \in Values, f \in BOOLEAN},
          {EntryAssign(n, Id(n), Seq1(n), v, f) :
              n \in known, v \in Values, f \in BOOLEAN},
          {EntryUpdate(Id(n), Seq1(n), v) : n \in known, v \in Values},
          {FlagsUpdate(Id(n), f) : n \in known, f \in BOOLEAN},
          {EntryDelete(Id(n)) : n \in known},
          {ClearEntries}}

Becomes(r) ==
    /\ ops < MaxOps /\ r.store # store
    /\ store' = r.store
    /\ dirty' = (dirty \/ r.dirty)
    /\ ops'   = ops + 1
    /\ UNCHANGED << files, pc, snapshot, saved, manual, faults, crashes >>

LocalOp == \E r \in UserOperations(store, OpKinds) : Becomes(r)

Incoming == \E m \in ClientMessages(store) : Becomes(ProcessIncoming(store, m))

-----------------------------------------------------------------------------
(* Saving: savePersistent and _saveEntries, step by step *)

Goto(from, to) == pc = from /\ pc' = to

Fails == faults < MaxFaults /\ faults' = faults + 1

\* _getPersistentEntries copies the entries and clears the flag at once.  The
\* dispatch thread looks once a second and leaves it at that if the flag is
\* not set.
PeriodicSave ==
    /\ dirty /\ Goto("idle", "open")
    /\ snapshot' = PersistentEntries(store)
    /\ dirty' = FALSE
    /\ UNCHANGED << store, files, saved, bounds >>

\* A save by the user: whatever becomes of it, the flag is cleared.
UserSave ==
    /\ manual < MaxManual /\ manual' = manual + 1
    /\ dirty' = FALSE
    /\ UNCHANGED << store, files, pc, snapshot, saved, ops, faults, crashes >>

OpenTmp ==
    /\ Goto("open", "write")
    /\ tmp' = Partial
    /\ UNCHANGED << store, dirty, main, bak, snapshot, saved, bounds >>

WriteTmp ==
    /\ Goto("write", "backup")
    /\ tmp' = snapshot
    /\ UNCHANGED << store, dirty, main, bak, snapshot, saved, bounds >>

\* open, write or fsync raises IOError.
WriteFails ==
    /\ Goto("open", "failed") \/ Goto("write", "failed")
    /\ Fails
    /\ UNCHANGED << store, dirty, files, snapshot, saved, ops, manual, crashes >>

\* Mutant: the backup is removed before the new file is in its place.
RemoveMain ==
    /\ Goto("backup", "replace")
    /\ bak' = NoFile /\ main' = NoFile
    /\ UNCHANGED << store, dirty, tmp, snapshot, saved, bounds >>

\* The file becomes the backup; a file that is missing is no error.
BackUp ==
    /\ Goto("backup", "replace")
    /\ bak' = IF main = NoFile THEN bak ELSE main
    /\ main' = NoFile
    /\ UNCHANGED << store, dirty, tmp, snapshot, saved, bounds >>

\* The file cannot be renamed: it stays, and the save goes on.
BackUpFails ==
    /\ Goto("backup", "replace") /\ Fails
    /\ main # NoFile
    /\ UNCHANGED << store, dirty, files, snapshot, saved, ops, manual, crashes >>

\* Mutant: the flag is cleared when the save is complete.
ReplaceAndClear ==
    /\ Goto("replace", "idle")
    /\ main' = tmp /\ tmp' = NoFile /\ saved' = tmp
    /\ snapshot' = Empty /\ dirty' = FALSE
    /\ UNCHANGED << store, bak, bounds >>

Replace ==
    /\ Goto("replace", "idle")
    /\ main' = tmp /\ tmp' = NoFile /\ saved' = tmp
    /\ snapshot' = Empty
    /\ UNCHANGED << store, dirty, bak, bounds >>

\* The temporary file cannot be renamed.  Then the backup is put back in the
\* place of the file, unless there is none or it cannot be renamed either.
ReplaceFails ==
    /\ Goto("replace", "failed") /\ Fails
    /\ \/ bak # NoFile /\ main' = bak /\ bak' = NoFile
       \/ UNCHANGED << main, bak >>
    /\ UNCHANGED << store, dirty, tmp, snapshot, saved, ops, manual, crashes >>

\* Mutant: a failed save is not tried again.
GiveUpForGood ==
    /\ Goto("failed", "idle") /\ snapshot' = Empty
    /\ UNCHANGED << store, dirty, files, saved, bounds >>

\* A periodic save that failed sets the flag again.
GiveUp ==
    /\ Goto("failed", "idle") /\ snapshot' = Empty
    /\ dirty' = TRUE
    /\ UNCHANGED << store, files, saved, bounds >>

SaveStep ==
    \/ OpenTmp \/ WriteTmp \/ WriteFails
    \/ BackUp \/ BackUpFails \/ Replace \/ ReplaceFails
    \/ GiveUp

-----------------------------------------------------------------------------
\* The process ends, at any point (nothing is saved on the way: stop leaves
\* the loop of the dispatch thread at once), and starts again.
Restart ==
    /\ crashes < MaxCrashes /\ crashes' = crashes + 1
    /\ store' = Started(main)
    /\ dirty' = FALSE
    /\ pc' = "idle" /\ snapshot' = Empty
    /\ UNCHANGED << files, saved, ops, manual, faults >>

Next ==
    \/ LocalOp \/ Incoming
    \/ PeriodicSave \/ UserSave \/ SaveStep
    \/ Restart

Spec == Init /\ [][Next]_vars

\* The dispatch thread wakes up every update interval and completes its save.
FairSpec == Spec /\ WF_vars(PeriodicSave) /\ WF_vars(SaveStep)

-----------------------------------------------------------------------------
(* Properties *)

\* Whenever the dispatch thread has nothing to do, the file holds what the
\* server holds, as far as a file can: no change of a persistent entry, of its
\* flag or of the set of entries, by whatever operation or message and at
\* whatever point of a save, is forgotten (m_persistent_dirty).
FileIsCurrent ==
    manual = 0 /\ ~dirty /\ pc = "idle" =>
        Read(main) = Read(PersistentEntries(store))

\* What the last complete save wrote is at all times in the file or its
\* backup, whatever one step of a save fails and wherever the process ends
\* (_saveEntries).  Two renames that fail may put an older backup in the place
\* of the file.
LastSaveSurvives == saved \in {main, bak}

\* As long as the user does not save, every change reaches the file in the end
\* (_dispatchThreadMain, savePersistent).
ChangesAreSaved ==
    []<>(manual = 0 =>
            Read(main) = Read(PersistentEntries(store)))

\* "Make value persistent through program restarts" (entry.py): when the
\* server has nothing left to save, a restart would bring every persistent
\* entry back.
RestartRestores ==
    ~dirty /\ pc = "idle" =>
        Read(main) = PersistentEntries(store)
=============================================================================
