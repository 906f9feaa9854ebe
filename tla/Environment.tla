----------------------------- MODULE Environment -----------------------------
(***************************************************************************)
(* The process environment (env.rs): a table of MAX_ENV_VARS entries and   *)
(* its length, compacted when a variable is removed, one table per process *)
(* and copied into a child entry by entry when it is spawned.  The running *)
(* process is the last of the chain; its ancestors wait for it.            *)
(***************************************************************************)
EXTENDS Integers, SequencesExt

CONSTANTS
  MaxVars,        \* MAX_ENV_VARS
  MaxKey,         \* MAX_ENV_KEY_LEN
  MaxValue,       \* MAX_ENV_VALUE_LEN
  KeyBytes,       \* bytes of the keys a program passes
  ValueBytes,     \* bytes of the values
  Sizes,          \* lengths of the buffers a program passes
  MaxDepth        \* bound: processes in the chain

ASSUME EnvironmentAssumption ==
  {MaxVars, MaxKey, MaxValue, MaxDepth} \subseteq Nat \ {0} /\ Sizes \subseteq Nat

VARIABLES chain,  \* for each process its env: [entries, len]
          reply   \* what the last syscall returned, as liblazer reports it
envVars == <<chain, reply>>

(* One key stands for all that are too long.                               *)
LongKey == [i \in 1..(MaxKey + 1) |-> CHOOSE b \in KeyBytes : b # "="]
Keys == BoundedSeq(KeyBytes, MaxKey) \cup {LongKey}
Values == BoundedSeq(ValueBytes, MaxValue + 1)

EmptyEntry == [key |-> <<>>, value |-> <<>>]
NewEnvironment == [entries |-> [i \in 1..MaxVars |-> EmptyEntry], len |-> 0]
KeyStatus(key) ==
  CASE key = <<>> \/ Contains(key, "=") -> "INVALID_KEY"
    [] key # <<>> /\ ~Contains(key, "=") /\ Len(key) > MaxKey -> "KEY_TOO_LONG"
    [] OTHER -> "OK"
Fitting(value) == Len(value) <= MaxValue

(* find_index: 0 where the code has None.                                  *)
FindIndex(e, key) ==
  LET at == {i \in 1..e.len : e.entries[i].key = key}
  IN  IF at = {} THEN 0 ELSE Min(at)

Outcome(status, e) == [status |-> status, env |-> e]

(* Environment::set: update in place, or append while there is room.       *)
SetEntryAppending(e, key, value) ==
  IF KeyStatus(key) # "OK" THEN Outcome(KeyStatus(key), e)
  ELSE IF ~Fitting(value) THEN Outcome("VALUE_TOO_LONG", e)
  ELSE IF e.len = MaxVars THEN Outcome("CAPACITY_EXCEEDED", e)
  ELSE Outcome("OK", [entries |-> [e.entries EXCEPT ![e.len + 1] = [key |-> key, value |-> value]],
                      len |-> e.len + 1])
SetEntry(e, key, value) ==
  LET index == FindIndex(e, key)
  IN  IF KeyStatus(key) # "OK" THEN Outcome(KeyStatus(key), e)
      ELSE IF ~Fitting(value) THEN Outcome("VALUE_TOO_LONG", e)
      ELSE IF index # 0 THEN Outcome("OK", [e EXCEPT !.entries[index].value = value])
      ELSE IF e.len = MaxVars THEN Outcome("CAPACITY_EXCEEDED", e)
      ELSE Outcome("OK",
             [entries |-> [e.entries EXCEPT ![e.len + 1] = [key |-> key, value |-> value]],
              len |-> e.len + 1])

(* The entries after the removed one move up, and the last is emptied.     *)
RemoveEntry(e, key) ==
  LET index == FindIndex(e, key)
  IN  IF KeyStatus(key) # "OK" THEN Outcome("INVALID_KEY", e)
      ELSE IF index = 0 THEN Outcome("NOT_FOUND", e)
      ELSE Outcome("OK",
             [entries |-> [i \in 1..MaxVars |->
                             IF i = e.len THEN EmptyEntry
                             ELSE IF i \in index..(e.len - 1) THEN e.entries[i + 1]
                             ELSE e.entries[i]],
              len |-> e.len - 1])

(* inherit_into: the child's cleared table, set entry by entry.            *)
InheritInto(e) ==
  LET copied[n \in 0..e.len] ==
        IF n = 0 THEN Outcome("OK", NewEnvironment)
        ELSE IF copied[n - 1].status # "OK" THEN copied[n - 1]
        ELSE SetEntry(copied[n - 1].env, e.entries[n].key, e.entries[n].value)
  IN  copied[e.len]

Pairs(e) == [i \in 1..e.len |-> <<e.entries[i].key, e.entries[i].value>>]
(* KEY=VALUE and a newline for each entry.                                 *)
ListingSize(pairs) == FoldLeft(LAMBDA n, p : n + Len(p[1]) + 1 + Len(p[2]) + 1, 0, pairs)

-----------------------------------------------------------------------------
Current == Last(chain)
Update(e) == chain' = Append(Front(chain), e)

EnvInit == chain = <<NewEnvironment>> /\ reply = <<"none">>

SetEnv(key, value) ==
  LET result == SetEntry(Current, key, value)
  IN  Update(result.env) /\ reply' = <<result.status>>
UnsetEnv(key) ==
  LET result == RemoveEntry(Current, key)
  IN  Update(result.env) /\ reply' = <<result.status>>
GetEnv(key, size) ==
  LET index == FindIndex(Current, key)
      value == Current.entries[index].value
  IN  /\ reply' = IF KeyStatus(key) # "OK" THEN <<"INVALID_KEY">>
                  ELSE IF index = 0 THEN <<"NOT_FOUND">>
                  ELSE IF size < Len(value) THEN <<"BUFFER_TOO_SMALL">>
                  ELSE <<"value", value>>
      /\ UNCHANGED chain
ListEnv(size) ==
  /\ reply' = IF ListingSize(Pairs(Current)) > size THEN <<"BUFFER_TOO_SMALL">>
              ELSE <<"list", Pairs(Current)>>
  /\ UNCHANGED chain

(* spawn_child_process gives the process up when a variable does not fit.  *)
Spawn ==
  /\ Len(chain) < MaxDepth
  /\ LET child == InheritInto(Current)
     IN  /\ chain' = IF child.status = "OK" THEN Append(chain, child.env) ELSE chain
         /\ reply' = <<child.status>>
Exit ==
  /\ Len(chain) > 1
  /\ chain' = Front(chain)
  /\ reply' = <<"OK">>

EnvNext ==
  \/ \E key \in Keys, value \in Values : SetEnv(key, value)
  \/ \E key \in Keys : UnsetEnv(key)
  \/ \E key \in Keys, size \in Sizes : GetEnv(key, size)
  \/ \E size \in Sizes : ListEnv(size)
  \/ Spawn
  \/ Exit

-----------------------------------------------------------------------------
KeysOf(e) == {e.entries[i].key : i \in 1..e.len}
MapOf(e) == [key \in KeysOf(e) |-> e.entries[FindIndex(e, key)].value]

Abstract == INSTANCE EnvMap WITH
  env <- [i \in DOMAIN chain |-> MapOf(chain[i])],
  order <- [i \in DOMAIN chain |-> [j \in 1..chain[i].len |-> chain[i].entries[j].key]]

(* The compacted table behaves like a map with insertion order: a value    *)
(* that was set is the value that is read, listed and inherited, a removal *)
(* disturbs no other variable, only a new key can find the table full, a   *)
(* child's calls never reach its parent, and copying never fails.          *)
ImplementsEnvMap == Abstract!Spec
=============================================================================
