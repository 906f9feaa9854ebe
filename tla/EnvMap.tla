------------------------------- MODULE EnvMap -------------------------------
(***************************************************************************)
(* What the environment syscalls promise: every process has a map from     *)
(* keys to values with room for MaxVars of them, a child starts with its   *)
(* parent's map, and no call of a child reaches the parent's.              *)
(***************************************************************************)
EXTENDS Integers, SequencesExt

CONSTANTS Keys, Values, Sizes, MaxVars, MaxDepth,
          KeyStatus(_), Fitting(_), ListingSize(_)

VARIABLES env,      \* maps of the running process (last) and its waiting ancestors
          order,    \* for each of them its keys, oldest first
          reply     \* what the last call returned
vars == <<env, order, reply>>

Mine == Last(env)
Known(key) == key \in DOMAIN Mine
Replaced(s, e) == Append(Front(s), e)

Init == env = <<<<>>>> /\ order = <<<<>>>> /\ reply = <<"none">>

Full == Cardinality(DOMAIN Mine) = MaxVars
Refuse(status) == reply' = <<status>> /\ UNCHANGED <<env, order>>

Set(key, value) ==
  \/ KeyStatus(key) # "OK" /\ Refuse(KeyStatus(key))
  \/ KeyStatus(key) = "OK" /\ ~Fitting(value) /\ Refuse("VALUE_TOO_LONG")
  \/ KeyStatus(key) = "OK" /\ Fitting(value) /\ ~Known(key) /\ Full /\ Refuse("CAPACITY_EXCEEDED")
  \/ /\ KeyStatus(key) = "OK" /\ Fitting(value) /\ (Known(key) \/ ~Full)
     /\ env' = Replaced(env, [k \in DOMAIN Mine \cup {key} |->
                                IF k = key THEN value ELSE Mine[k]])
     /\ order' = IF Known(key) THEN order ELSE Replaced(order, Append(Last(order), key))
     /\ reply' = <<"OK">>

Position(key) == CHOOSE i \in DOMAIN Last(order) : Last(order)[i] = key
Unset(key) ==
  \/ KeyStatus(key) # "OK" /\ Refuse("INVALID_KEY")
  \/ KeyStatus(key) = "OK" /\ ~Known(key) /\ Refuse("NOT_FOUND")
  \/ /\ Known(key)
     /\ env' = Replaced(env, [k \in DOMAIN Mine \ {key} |-> Mine[k]])
     /\ order' = Replaced(order, RemoveAt(Last(order), Position(key)))
     /\ reply' = <<"OK">>

Get(key, size) ==
  \/ KeyStatus(key) # "OK" /\ Refuse("INVALID_KEY")
  \/ KeyStatus(key) = "OK" /\ ~Known(key) /\ Refuse("NOT_FOUND")
  \/ Known(key) /\ Len(Mine[key]) > size /\ Refuse("BUFFER_TOO_SMALL")
  \/ /\ Known(key) /\ Len(Mine[key]) <= size
     /\ reply' = <<"value", Mine[key]>>
     /\ UNCHANGED <<env, order>>

Listing == [i \in DOMAIN Last(order) |-> <<Last(order)[i], Mine[Last(order)[i]]>>]
List(size) ==
  /\ reply' = IF ListingSize(Listing) > size THEN <<"BUFFER_TOO_SMALL">>
              ELSE <<"list", Listing>>
  /\ UNCHANGED <<env, order>>

Spawn ==
  /\ Len(env) < MaxDepth
  /\ env' = Append(env, Mine) /\ order' = Append(order, Last(order)) /\ reply' = <<"OK">>
Exit ==
  /\ Len(env) > 1
  /\ env' = Front(env) /\ order' = Front(order) /\ reply' = <<"OK">>

Next ==
  \/ \E key \in Keys, value \in Values : Set(key, value)
  \/ \E key \in Keys : Unset(key)
  \/ \E key \in Keys, size \in Sizes : Get(key, size)
  \/ \E size \in Sizes : List(size)
  \/ Spawn
  \/ Exit
Spec == Init /\ [][vars' # vars /\ Next]_vars
=============================================================================
