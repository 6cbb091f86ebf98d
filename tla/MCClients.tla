------------------------------ MODULE MCClients ------------------------------
(* TLC instances of ImageTransforms and ReviewAutosave beside each other.     *)
(* They share no variable: in a behaviour one of them moves and the other     *)
(* keeps its initial state.  ReviewAutosave has two: one flusher with every   *)
(* visit and edit, and two flushers that wait for each other's work, under    *)
(* fairness.  No symmetry.                                                    *)
EXTENDS ImageTransforms, ReviewAutosave

CONSTANT Guard \* the flusher of the instance that has one

VARIABLE moving

ClientsInit ==
    /\ moving \in {"images", "autosave", "flushes"} /\ ImagesInit /\ AutosaveInit
    /\ moving # "images" => public

GuardIsAlone == \A f \in Flushers \ {Guard} : flush[f].pc = "idle"

\* The instance of two flushers has a second visit or a second edit, and no
\* request outlives its answer.  What is left out is never all that fairness
\* asks for.
FewEvents == (visit <= 1 \/ keys <= 1) /\ \A q \in target.requests : ~q.lost

ClientsNext ==
    \/ moving = "images" /\ ImagesNext /\ UNCHANGED <<moving, autosaveVars>>
    \/ moving = "autosave" /\ AutosaveNext /\ GuardIsAlone' /\ UNCHANGED <<moving, imageVars>>
    \/ moving = "flushes" /\ AutosaveNext /\ FewEvents' /\ UNCHANGED <<moving, imageVars>>

\* ImagesFairness and AutosaveFairness, each for the behaviours of its instance.
ClientsFairness ==
    /\ \A r \in ImageRequests : WF_imageVars(moving = "images" /\ Serve(r))
    /\ \A lane \in Lanes : WF_autosaveVars(moving = "flushes" /\ TimerFires(lane))
    /\ WF_autosaveVars(moving = "flushes" /\ SaveEnds)
    /\ \A f \in Flushers : SF_autosaveVars(moving = "flushes" /\ FlushEnds(f))

ClientsSpec ==
    ClientsInit /\ [][ClientsNext]_<<moving, imageVars, autosaveVars>> /\ ClientsFairness

\* The types of both modules.
ClientsTypeOK == ImagesTypeOK /\ AutosaveTypeOK

(* FlushesEnd, of the instance under fairness: neither of the navigation guard *)
(* and the mutation executor waits for ever, whatever the other does to the    *)
(* queue.                                                                      *)
FairFlushesEnd == moving = "flushes" => FlushesEnd

=============================================================================
