----------------------------- MODULE MC_IapMode -----------------------------
\* The IAP mode state machine of two builds: one for the field, with a Kinetek found in any
\* state; and the one of the source's flags, which may also find no Kinetek at all.
EXTENDS IapMode

Present == KinetekStates \ {"absent"}

AsBuilt == INSTANCE IapMode WITH
  Kineteks <- KinetekStates,
  IAP_SELECTIVE_MODE_TEST <- TRUE, IAP_FORCED_MODE_TEST <- FALSE, IAP_MODE_TEST <- TRUE

VARIABLE field

MCInit == field \in BOOLEAN /\ IF field THEN Init ELSE AsBuilt!Init

MCNext ==
  \/ field /\ Next /\ UNCHANGED field
  \/ ~field /\ AsBuilt!Next /\ UNCHANGED field

mcvars == <<vars, field>>
MCSpec ==
  /\ MCInit /\ [][MCNext]_mcvars
  /\ WF_mcvars(field /\ Program /\ UNCHANGED field)
  /\ WF_mcvars(field /\ Settle /\ UNCHANGED field)
  /\ SF_mcvars(field /\ WindowHit /\ UNCHANGED field)

\* Every run of the program for the field ends, whatever state the Kinetek is found in
\* (KinetekUtility.cpp:544-573).
FieldAttemptEnds == field => AttemptEnds
=============================================================================
