------------------------------ MODULE Registry ------------------------------
(***************************************************************************)
(* processors/registry.py: the processors of a server, by name and type.   *)
(* A registry is a set of entries; an entry has a name, a role and what    *)
(* its processor is made of.                                               *)
(***************************************************************************)
EXTENDS FiniteSets

_callable_service_types == {"search", "score", "decompose_query", "fuse"}
_uncallable_service_types == {"content"}
valid_service_types == _callable_service_types \union _uncallable_service_types

Slot(e) == <<e.name, e.role>>

HasService(reg, slot) == \E e \in reg : Slot(e) = slot

\* register raises ValueError for a type it does not know and for a slot that
\* is taken.
Registers(reg, e) == e.role \in valid_service_types /\ ~HasService(reg, Slot(e))

\* The entries can be registered one after the other, in any order: none finds
\* its slot taken by another.
RegistersAll(entries) == \A e \in entries : Registers(entries \ {e}, e)

\* get_all_services, for one type.
OfType(reg, role) == {e.name : e \in {f \in reg : f.role = role}}

\* What a pipeline string can call.
Callable(reg) == {e.name : e \in {f \in reg : f.role \in _callable_service_types}}

=============================================================================
