------------------------------- MODULE MCSite -------------------------------
(* Values of the constants of Site for TLC. *)
EXTENDS Site, TLC

CONSTANTS mine

\* A form that opens the uploads to everyone, one that names the uploaded theme.
MCForms == {[theme |-> Sunset, manage |-> TRUE, source |-> "github"],
            [theme |-> mine, manage |-> FALSE, source |-> "gitcode"]}

MCMixes == {{"form", "source", "activate", "drop"}, {"activate", "install", "drop"},
            {"form", "source", "item"}, {"upload", "unfile", "form"}}

SlotSymmetry == Permutations(Slots)

=============================================================================
