--------------------------- MODULE PersistentStore ---------------------------
(***************************************************************************)
(* The SQLite store behind PersistentStore: namespaces, items and limits   *)
(* of namespaces in one file, triggers that refuse what would grow past a  *)
(* limit, and a backup that replaces a corrupt file at start-up.           *)
(*                                                                         *)
(* SetValue and SetNamespaceStorageLimit are two statements without a      *)
(* transaction; other clients, or a crash, may come in between.  SQLite    *)
(* executes one statement at a time and keeps what it has executed.  An    *)
(* item is the length of its key and value, names and keys are of length   *)
(* 1, and expiry, which only hides items from GetValue, is left out.       *)
(***************************************************************************)
EXTENDS Naturals, FiniteSets

CONSTANTS
    StoreClients,       \* threads that call the store
    Namespaces, Keys,
    ValueLengths,       \* the lengths of values that clients set
    NamespaceLimits,    \* the limits that clients set
    MaxSize, MaxValue, DefaultLimit,    \* _maxSize, _maxValue, _limit
    MaxBoots            \* bound: restarts

ASSUME StoreAssumption ==
    /\ ValueLengths \subseteq Nat /\ NamespaceLimits \subseteq Nat
    /\ {MaxSize, MaxValue, DefaultLimit, MaxBoots} \subseteq Nat

VARIABLES
    names,          \* table namespace
    items,          \* table item, by namespace and key
    limits,         \* table limits, by namespace
    backup,         \* the three tables in the backup, empty without one
    storeCall,      \* per client, the second statement it has still to execute
    boots,          \* restarts so far
    atBoot          \* history: the tables when the store was last opened

tables == <<names, items, limits>>
storeVars == <<tables, backup, storeCall, boots, atBoot>>

NoStatement == [op |-> "none"]
NoTables == <<{}, <<>>, <<>>>>

StoreInit ==
    /\ names = {} /\ items = <<>> /\ limits = <<>>
    /\ backup = NoTables
    /\ storeCall = [c \in StoreClients |-> NoStatement]
    /\ boots = 0
    /\ atBoot = NoTables

\* The lengths of some rows add up to the number of their bytes.
Bytes(table, rows) == UNION {{row} \X (1..table[row]) : row \in rows}
SumOf(rows) == Cardinality(Bytes(items, rows))
ItemsOf(n) == {row \in DOMAIN items : row[1] = n}
StoreSize == SumOf(DOMAIN items) + Cardinality(names)
Without(f, S) == [x \in DOMAIN f \ S |-> f[x]]
With(f, x, v) == [y \in DOMAIN f \cup {x} |-> IF y = x THEN v ELSE f[y]]

-----------------------------------------------------------------------------
(* The triggers run before the insertion and before it is known whether a  *)
(* row is there already: an insertion that would be ignored is refused by  *)
(* a full store, and a row to be replaced counts.                          *)

NamespaceFits == StoreSize + 1 <= MaxSize

ItemFits(n, length) ==
    /\ StoreSize + length <= MaxSize
    /\ SumOf(ItemsOf(n)) + length <= DefaultLimit
    /\ n \in DOMAIN limits => SumOf(ItemsOf(n)) + length <= limits[n]

\* Without room for the namespace the call ends here.
FirstStatement(c, second) ==
    /\ storeCall[c] = NoStatement
    /\ NamespaceFits
    /\ names' = names \cup {second.ns}
    /\ storeCall' = [storeCall EXCEPT ![c] = second]
    /\ UNCHANGED <<items, limits, backup, boots, atBoot>>

SecondStatement(c, op) ==
    /\ storeCall[c].op = op
    /\ storeCall' = [storeCall EXCEPT ![c] = NoStatement]
    /\ UNCHANGED <<names, backup, boots, atBoot>>

SetValue(c, n, k, value) ==
    FirstStatement(c, [op |-> "item", ns |-> n, key |-> k, value |-> value])

\* A namespace deleted meanwhile selects no row, which is no error.
InsertItem(c) ==
    /\ SecondStatement(c, "item")
    /\ LET call == storeCall[c]
           length == 1 + call.value
       IN  \/ /\ call.ns \in names
              /\ call.value <= MaxValue /\ ItemFits(call.ns, length)
              /\ items' = With(items, <<call.ns, call.key>>, length)
           \/ /\ call.ns \notin names \/ call.value > MaxValue \/ ~ItemFits(call.ns, length)
              /\ UNCHANGED items
    /\ UNCHANGED limits

SetNamespaceStorageLimit(c, n, size) ==
    FirstStatement(c, [op |-> "limit", ns |-> n, size |-> size])

\* A limit may be set below what the namespace takes up already.
InsertLimit(c) ==
    /\ SecondStatement(c, "limit")
    /\ limits' = IF storeCall[c].ns \in names
                 THEN With(limits, storeCall[c].ns, storeCall[c].size)
                 ELSE limits
    /\ UNCHANGED items

DeleteKey(n, k) ==
    /\ items' = Without(items, {<<n, k>>})
    /\ UNCHANGED <<names, limits, backup, storeCall, boots, atBoot>>

\* The foreign keys cascade.
DeleteNamespace(n) ==
    /\ names' = names \ {n}
    /\ items' = Without(items, ItemsOf(n))
    /\ limits' = Without(limits, {n})
    /\ UNCHANGED <<backup, storeCall, boots, atBoot>>

-----------------------------------------------------------------------------
(* IntegrityCheck destroys a corrupt file, then Backup copies the file to  *)
(* the backup, or the backup to the file.                                  *)

BackupBeforeCheck(corrupt) ==
    IF corrupt THEN [file |-> NoTables, copy |-> NoTables] ELSE [file |-> tables, copy |-> tables]
BackupAfterCheck(corrupt) ==
    IF corrupt THEN [file |-> backup, copy |-> backup] ELSE [file |-> tables, copy |-> tables]

StoreRestart(corrupt) ==
    /\ boots < MaxBoots
    /\ boots' = boots + 1
    /\ LET opened == BackupAfterCheck(corrupt)
       IN  /\ names' = opened.file[1] /\ items' = opened.file[2] /\ limits' = opened.file[3]
           /\ backup' = opened.copy
           /\ atBoot' = opened.file
    /\ storeCall' = [c \in StoreClients |-> NoStatement]

-----------------------------------------------------------------------------
StoreNext ==
    \/ \E c \in StoreClients :
          \/ \E n \in Namespaces, k \in Keys, value \in ValueLengths : SetValue(c, n, k, value)
          \/ \E n \in Namespaces, size \in NamespaceLimits : SetNamespaceStorageLimit(c, n, size)
          \/ InsertItem(c) \/ InsertLimit(c)
    \/ \E n \in Namespaces : DeleteNamespace(n) \/ \E k \in Keys : DeleteKey(n, k)
    \/ \E corrupt \in BOOLEAN : StoreRestart(corrupt)

StoreSpec == StoreInit /\ [][StoreNext]_storeVars

-----------------------------------------------------------------------------
(* What is claimed. *)

\* The store and each namespace stay within the limits of the
\* configuration, and a namespace that grows, other than by a restart, ends
\* within its own, whatever comes between the two statements of a call.
StaysWithinLimits ==
    /\ StoreSize' <= MaxSize
    /\ \A n \in Namespaces :
          /\ SumOf(ItemsOf(n))' <= DefaultLimit
          /\ SumOf(ItemsOf(n))' > SumOf(ItemsOf(n)) /\ boots' = boots /\ n \in DOMAIN limits' =>
                 SumOf(ItemsOf(n))' <= limits'[n]

\* A restart finds the tables as they were, or as they were when the store
\* was last opened, however often the file is corrupt.
RestartKeepsTables == boots' # boots => tables' \in {tables, atBoot}

\* Both hold of every step: no step takes the tables beyond their limits,
\* and no restart loses them.
StoreIsSound == [][StaysWithinLimits /\ RestartKeepsTables]_storeVars
=============================================================================
