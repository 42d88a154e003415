------------------------- MODULE ContainerRequests -------------------------
(***************************************************************************)
(* The requests of OCIContainer as steps.  Each is one call of             *)
(* DobbyInterface, whose result is told in the flag success; the return    *)
(* code is always ERROR_NONE.  RuntimeManager models those it uses         *)
(* together with what Dobby tells of the containers.                       *)
(***************************************************************************)
EXTENDS RequestSteps

Admin(body) == Within("mAdminLock", body)
Registered  == Under("mAdminLock", Effect("notification"))

Register   == Admin(<<Maybe(<<Registered>>)>>)
Unregister == Admin(<<Either(<<Registered>>, <<Sets(FALSE)>>)>>)

-----------------------------------------------------------------------------
\* Without Dobby nothing succeeds.
WithDobby(body) == <<Either(body, <<Sets(FALSE)>>)>>
\* Neither does what is asked of a container that Dobby does not list.
GetContainerDescriptorFromId(body) == WithDobby(<<Either(body, <<Sets(FALSE)>>)>>)

ListContainers    == WithDobby(<<Asks>>)
GetContainerState == GetContainerDescriptorFromId(NoSteps)
GetContainerInfo  == GetContainerDescriptorFromId(<<Asks>>)

\* An encrypted bundle is mounted first, and unmounted when the start fails.
startContainer == Body(WithDobby(<<Either(
    <<Try("mountCryptedBundle"), IfGood(NoSteps, <<Leaves>>), Try("startContainerFromBundle"),
      IfGood(NoSteps, <<Undo("mountCryptedBundle")>>)>>,
    <<Try("startContainerFromBundle")>>)>>))
StartContainer == startContainer

startContainerFromDobbySpec == WithDobby(<<Try("startContainerFromSpec")>>)
StartContainerFromDobbySpec == startContainerFromDobbySpec

StopContainer == GetContainerDescriptorFromId(<<Try("stopContainer")>>)

pauseContainer == GetContainerDescriptorFromId(<<Try("pauseContainer")>>)
PauseContainer == pauseContainer
resumeContainer == GetContainerDescriptorFromId(<<Try("resumeContainer")>>)
ResumeContainer == resumeContainer
hibernateContainer == GetContainerDescriptorFromId(<<Try("hibernateContainer")>>)
HibernateContainer == hibernateContainer
wakeupContainer == GetContainerDescriptorFromId(<<Try("wakeupContainer")>>)
WakeupContainer == wakeupContainer

executeCommand == GetContainerDescriptorFromId(<<Try("execInContainer")>>)
ExecuteCommand == executeCommand
annotate == GetContainerDescriptorFromId(<<Try("addAnnotation")>>)
Annotate == annotate
removeAnnotation == GetContainerDescriptorFromId(<<Try("removeAnnotation")>>)
RemoveAnnotation == removeAnnotation
mount == GetContainerDescriptorFromId(<<Try("addContainerMount")>>)
Mount == mount
unmount == GetContainerDescriptorFromId(<<Try("removeContainerMount")>>)
Unmount == unmount

-----------------------------------------------------------------------------
Catalogue == [
    Register |-> Register, Unregister |-> Unregister, ListContainers |-> ListContainers,
    GetContainerState |-> GetContainerState, GetContainerInfo |-> GetContainerInfo,
    StartContainer |-> StartContainer,
    StartContainerFromDobbySpec |-> StartContainerFromDobbySpec, StopContainer |-> StopContainer,
    PauseContainer |-> PauseContainer, ResumeContainer |-> ResumeContainer,
    HibernateContainer |-> HibernateContainer, WakeupContainer |-> WakeupContainer,
    ExecuteCommand |-> ExecuteCommand, Annotate |-> Annotate,
    RemoveAnnotation |-> RemoveAnnotation, Mount |-> Mount, Unmount |-> Unmount]
=============================================================================
