----------------------------- MODULE LocalAgent -----------------------------
(***************************************************************************)
(* The Go agent: one binary, whose entries (the flags of main.go) are      *)
(* processes of their own.  The entries for uploads, sessions and updates  *)
(* keep their state in different directories and read nothing of each      *)
(* other, so that what holds of a behaviour that uses one of them holds of *)
(* all: MaxEntry = 1 explores DeviceUpload, LocalMirror and SelfUpdate.    *)
(***************************************************************************)
EXTENDS DeviceUpload, LocalMirror, SelfUpdate

CONSTANT MaxEntry   \* bound: kinds of entries used in one behaviour

VARIABLE used       \* the kinds of entries that are used

Kind == {"upload", "session", "update"}

AgentInit ==
    /\ used \in {K \in SUBSET Kind : Cardinality(K) = MaxEntry}
    /\ UploadInit /\ MirrorInit /\ UpdateInit

\* main, and the messages of the browser that start the binary once more.
Entry ==
    \/ "upload" \in used /\ UploadNext /\ UNCHANGED <<used, mirrorVars, updateVars>>
    \/ "session" \in used /\ MirrorNext /\ UNCHANGED <<used, uploadVars, updateVars>>
    \/ "update" \in used /\ UpdateNext /\ UNCHANGED <<used, uploadVars, mirrorVars>>

AgentSpec == AgentInit /\ [][Entry]_<<used, uploadVars, mirrorVars, updateVars>>

\* Types of the three parts.
AgentTypeOK == UploadTypeOK /\ MirrorTypeOK /\ UpdateTypeOK /\ used \subseteq Kind
================================================================================
