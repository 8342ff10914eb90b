-------------------------- MODULE MCOnboardingRun --------------------------
(* OnboardingRun for TLC.  "All" is every plan and every order of the reports of *)
(* the pipeline; "Short" keeps one of each, for the runs with two run files.     *)
EXTENDS OnboardingRun

AllSkips == Skippable
AllPipelines == Reports
ShortSkips == {Sources \cup {"build_vector_index"}}
ShortPipelines == {<<"audit_slices", "publish_approved", "build_keyword_index",
                     "build_vector_index">>}
============================================================================
