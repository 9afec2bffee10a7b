----------------------------- MODULE MCTestRun -----------------------------
(* A plain command, an inventory suite before and after it has proved       *)
(* itself, and a reproduction, with reports of up to two tests.             *)
EXTENDS TestRun

CONSTANTS a, b

MCTests == {a, b}
OneTest == {a}
Plain == [report |-> FALSE, counted |-> {}, reproduction |-> FALSE]
Suite == [report |-> TRUE, counted |-> {}, reproduction |-> FALSE]
ProvenSuite == [report |-> TRUE, counted |-> {a}, reproduction |-> FALSE]
Reproduction == [report |-> TRUE, counted |-> {}, reproduction |-> TRUE]
BareReproduction == [report |-> FALSE, counted |-> {}, reproduction |-> TRUE]
AllCommands == {Plain, Suite, ProvenSuite, Reproduction, BareReproduction}
OnlyProven == {ProvenSuite}
AllModes == {"unbudgeted", "baseline", "clamped"}
=============================================================================
