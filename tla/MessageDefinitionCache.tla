----------------------- MODULE MessageDefinitionCache -----------------------
(***************************************************************************)
(* MessageDefinitionCache::get_full_text (message_definition_cache.cpp):   *)
(* the definition of a message type followed by those of all types it      *)
(* depends on, from .msg files or, if one of them is missing, from .idl    *)
(* files.  The walk is recursive; here its stack is a variable.  Calls     *)
(* follow each other and share the cache, and the files may be installed,  *)
(* changed or removed at any time: what a read finds is not determined.    *)
(*                                                                         *)
(* A text is the set of the types of its fields, or of its includes.       *)
(* Package-relative names are resolved, and the spellings foo/Bar and      *)
(* foo/msg/Bar are two names, as they are in the cache.  std::set iterates *)
(* in the order of the names; here any order is possible.                  *)
(***************************************************************************)
EXTENDS Naturals, FiniteSets, Sequences, SequencesExt

CONSTANTS
  Names,       \* package resource names
  Primitive,   \* a primitive type
  MaxReads     \* bound on the definitions in the cache

ASSUME NamesAssumption ==
  /\ IsFiniteSet(Names)
  /\ Primitive \notin Names
  /\ MaxReads \in Nat

Formats == {"MSG", "IDL"}

VARIABLES
  pc,       \* "idle", "load" of a definition, "walk", or how the call ended
  root,     \* root_package_resource_name
  format,   \* the local of get_full_text
  target,   \* the name load_message_spec is called for
  stack,    \* the calls of append_recursive: name and dependencies to come
  seen,     \* seen_deps
  result,   \* the names of the definitions in result
  cache     \* msg_specs_by_definition_identifier_, their dependencies

locals == <<root, format, seen>>
vars == <<pc, locals, target, stack, result, cache>>

Identifiers == [format : Formats, name : Names]

Ends == {"returned",
         "not_found",   \* DefinitionNotFoundError
         "failed"}      \* another exception

TypeOK ==
  /\ pc \in {"idle", "load", "walk"} \union Ends
  /\ root \in Names
  /\ format \in Formats
  /\ target \in Names
  /\ stack \in Seq([name : Names, left : SUBSET Names])
  /\ seen \subseteq Identifiers
  /\ result \in Seq(Names)
  /\ DOMAIN cache \subseteq Identifiers
  /\ \A id \in DOMAIN cache : cache[id] \subseteq Names

Init ==
  /\ pc = "idle"
  /\ root \in Names /\ target = root
  /\ format = "MSG"
  /\ stack = <<>> /\ seen = {} /\ result = <<>>
  /\ cache = <<>>

-----------------------------------------------------------------------------
(* load_message_spec. *)

Id(n) == [format |-> format, name |-> n]

\* What a file may hold: the types of its fields, or its includes.
Texts == SUBSET (IF format = "MSG" THEN Names \union {Primitive} ELSE Names)

\* parse_dependencies
Dependencies(text) == text \ {Primitive}

\* get_full_text ends, and with it its locals.
Leave(how) ==
  /\ pc' = how
  /\ seen' = {}
  /\ target' = root

\* append_recursive goes on with the dependencies of target.
Enter(deps) ==
  /\ stack' = Append(stack, [name |-> target, left |-> deps])
  /\ result' = Append(result, target)
  /\ pc' = "walk"
  /\ UNCHANGED <<locals, target>>

\* The definition is in the cache ...
Found ==
  /\ pc = "load"
  /\ Id(target) \in DOMAIN cache
  /\ Enter(cache[Id(target)])
  /\ UNCHANGED cache

\* ... or is read ...
Read(text) ==
  /\ pc = "load"
  /\ Cardinality(DOMAIN cache) < MaxReads
  /\ Id(target) \notin DOMAIN cache
  /\ cache' = [id \in DOMAIN cache \union {Id(target)} |->
                 IF id = Id(target) THEN Dependencies(text) ELSE cache[id]]
  /\ Enter(Dependencies(text))

\* ... or is missing in the index of its package or on the disk.  From .msg the
\* walk starts again with .idl, with the dependencies it has seen.
NotFound ==
  /\ pc = "load"
  /\ Id(target) \notin DOMAIN cache
  /\ IF format = "MSG"
     THEN /\ format' = "IDL"
          /\ target' = root
          /\ UNCHANGED <<pc, seen>>
     ELSE Leave("not_found") /\ UNCHANGED format
  /\ stack' = <<>> /\ result' = <<>>
  /\ UNCHANGED <<root, cache>>

\* The package is not installed, or the name is invalid.
Fails ==
  /\ pc = "load"
  /\ Id(target) \notin DOMAIN cache
  /\ Leave("failed")
  /\ stack' = <<>> /\ result' = <<>>
  /\ UNCHANGED <<root, format, cache>>

-----------------------------------------------------------------------------
(* get_full_text. *)

\* Calls come from the polling thread, one after the other.
GetFullText(n) ==
  /\ pc \in {"idle"} \union Ends
  /\ root' = n /\ target' = n
  /\ format' = "MSG"
  /\ result' = <<>>
  /\ pc' = "load"
  /\ UNCHANGED <<stack, seen, cache>>

\* seen_deps with a dependency.
Seen(n) == seen \union {Id(n)}

\* Mutant: a dependency is skipped if it was seen in either format.
IsNewName(n) == \A f \in Formats : [format |-> f, name |-> n] \notin seen

\* insert() tells whether it is new.
IsNew(n) == Id(n) \notin seen

\* Mutant: the loop does not go on to the next one.
LeftAll(left, n) == left

\* The dependencies that are left after one.
Left(left, n) == left \ {n}

\* The next dependency of the definition on top of the stack.
Dependency(n) ==
  /\ pc = "walk"
  /\ n \in Last(stack).left
  /\ stack' = [stack EXCEPT ![Len(stack)].left = Left(@, n)]
  /\ seen' = Seen(n)
  /\ IF IsNew(n) THEN pc' = "load" /\ target' = n
                 ELSE UNCHANGED <<pc, target>>
  /\ UNCHANGED <<root, format, result, cache>>

\* It has none left.
Return ==
  /\ pc = "walk"
  /\ Last(stack).left = {}
  /\ stack' = Front(stack)
  /\ IF Len(stack) = 1 THEN Leave("returned")
                       ELSE UNCHANGED <<pc, target, seen>>
  /\ UNCHANGED <<root, format, result, cache>>

Steps ==
  \/ Found
  \/ \E text \in Texts : Read(text)
  \/ NotFound
  \/ Fails
  \/ \E n \in Names : Dependency(n)
  \/ Return

Next == Steps \/ \E n \in Names : GetFullText(n)

\* The thread runs.
Spec == Init /\ [][Next]_vars /\ WF_vars(Steps)

-----------------------------------------------------------------------------
(* Properties. *)

DepsOf(n) == IF Id(n) \in DOMAIN cache THEN cache[Id(n)] ELSE {}

\* Reference: the definitions that are reached from the root, by at least one
\* dependency.
IsClosed(S) == DepsOf(root) \subseteq S /\ \A n \in S : DepsOf(n) \subseteq S

Closure == {n \in Names : \A S \in SUBSET Names : IsClosed(S) => n \in S}

\* "Concatenate the message definition with its dependencies into a
\* self-contained schema": what is returned is the definition of the root and
\* then that of each type it depends on, directly or not, exactly once, also
\* with cyclic includes, and also after the walk was begun again or some of the
\* definitions were known from earlier calls.
SelfContained ==
  pc = "returned" =>
    /\ Head(result) = root
    /\ ToSet(Tail(result)) = Closure
    /\ Len(Tail(result)) = Cardinality(Closure)

\* Every call returns or throws.
CallsEnd == pc = "load" ~> pc \in Ends
=============================================================================
