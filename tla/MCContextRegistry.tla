-------------------------- MODULE MCContextRegistry --------------------------
(***************************************************************************)
(* Model checking of ContextRegistry on a small instance.                  *)
(***************************************************************************)
EXTENDS ContextRegistry, Naturals, TLC

CONSTANTS spelling, Spelling,   \* values that differ only in case
          MaxEntities,          \* bound of the model: entities
          MaxRows               \* bound of the model: aliases, facts and links

\* Two spellings are two values with one normal form.
MCNormal(v) == IF v = Spelling THEN spelling ELSE v

NewInstallation == [entities |-> EmptyTable, aliases |-> EmptyTable]

\* An entity somebody has switched off.
SwitchedOff(e) == [entities |-> e :> FALSE, aliases |-> EmptyTable]

\* Entities of every type that share a name, and an alias.
Shared(name, alias) ==
  [entities |-> [e \in Types \X {name} |-> TRUE],
   aliases  |-> [k \in (Types \X {name}) \X {alias} |-> TRUE]]

Databases ==
  {NewInstallation} \cup {SwitchedOff(e) : e \in Entities}
    \cup {Shared(name, alias) : name \in References, alias \in References}

OnlyNew == {NewInstallation}

Symmetry == Permutations(Types) \cup Permutations(References)

FewRows ==
  /\ Cardinality(DOMAIN entities) <= MaxEntities
  /\ Cardinality(DOMAIN aliases \cup DOMAIN facts \cup DOMAIN links) <= MaxRows
=============================================================================
