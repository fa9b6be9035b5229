------------------------- MODULE MCRecorderVerifier -------------------------
(***************************************************************************)
(* The two state machines without a queue, each with its own methods and   *)
(* its own kind of engine; a behaviour is one of a recorder or of a        *)
(* verifier channel.                                                       *)
(***************************************************************************)
EXTENDS MrcpChannel

VARIABLES resource, state, current

Recorder == INSTANCE RecorderStateMachine
                WITH record <- current, ClientMethods <- ClientMethods \cap RecorderMethods
Verifier == INSTANCE VerifierStateMachine
                WITH verify <- current, ClientMethods <- ClientMethods \cap VerifierMethods

vars == <<channel_vars, resource, state, current>>

Init ==
    \/ resource = "recorder" /\ Recorder!Init
    \/ resource = "verifier" /\ Verifier!Init

Next ==
    /\ UNCHANGED resource
    /\ \/ resource = "recorder" /\ Recorder!Next
       \/ resource = "verifier" /\ Verifier!Next

(* The server task and the engine go on; the client need not.              *)
ServerSteps ==
    /\ UNCHANGED resource
    /\ \/ resource = "recorder" /\ Recorder!ServerTask
       \/ resource = "verifier" /\ Verifier!ServerTask
EngineAnswers == EngineAnswer /\ UNCHANGED <<resource, state, current>>

Spec == Init /\ [][Next]_vars /\ WF_vars(ServerSteps) /\ WF_vars(EngineAnswers)

(* Recorder, client and engine agree (mrcp_recorder_state_machine.c).      *)
RecorderAgrees == resource = "recorder" => Recorder!RecorderAgrees

(* Verifier, client and engine agree (mrcp_verifier_state_machine.c).      *)
VerifierAgrees == resource = "verifier" => Verifier!VerifierAgrees

(* While STOP waits for the engine, what it stops stays in progress, so    *)
(* its response handler dereferences no NULL request                       *)
(* (mrcp_recorder_state_machine.c 159, mrcp_verifier_state_machine.c 255). *)
StopFindsRequest ==
    /\ resource = "recorder" => Recorder!StopFindsRecord
    /\ resource = "verifier" => Verifier!StopFindsVerify
    /\ ~crashed
=============================================================================
