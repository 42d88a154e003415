-------------------------- MODULE RuntimeRequests --------------------------
(***************************************************************************)
(* The requests of RuntimeManager as steps.  The module RuntimeManager has *)
(* what they do to containers and user ids; here is what they reply.       *)
(***************************************************************************)
EXTENDS RequestSteps

\* The lock may be taken again by the thread that holds it, as Wake does.
Admin(body)   == Within("mRuntimeManagerImplLock", body)
Record(step)  == Under("mRuntimeManagerImplLock", step)
Registered    == Record(Effect("notification"))
ChangesState  == Record(Effect("containerState"))

Register   == Admin(<<Maybe(<<Registered>>)>>)
Unregister == Admin(<<Either(<<Registered>>, <<Sets(FALSE)>>)>>)
\* The listeners are told with the lock held; a state that is no number
\* throws.
Dispatch   == Admin(<<Repeat(<<Throws, Record(Effect("notification called"))>>)>>)
dispatchEvent == <<Effect("job submitted")>>

-----------------------------------------------------------------------------
\* Interfaces that were not there are asked for, up to twice; once there, they
\* are kept.
createStorageManagerPluginObject == <<Asks, IfGood(NoSteps, <<Asks>>)>>
createOCIContainerPluginObject   == <<Asks, IfGood(NoSteps, <<Asks>>)>>
isOCIPluginObjectValid == <<Either(<<Sets(TRUE)>>, createOCIContainerPluginObject)>>

WithContainer(body) == isOCIPluginObjectValid \o <<IfGood(Needs(body), NoSteps)>>
OnContainer(body)   == Admin(WithContainer(body))

\* OCIContainer tells a failure by the flag success and leaves the return
\* code alone; what is returned to the caller is the return code.
Told(f, then) == <<Try(f), IfGood(then, <<Maybe(<<Sets(TRUE)>>)>>)>>

Suspend   == OnContainer(Told("PauseContainer", NoSteps))
Resume    == OnContainer(Told("ResumeContainer", NoSteps))
Hibernate == OnContainer(Told("HibernateContainer", <<Maybe(<<ChangesState>>)>>))

getRuntimeState == <<Record(Looks)>>
Wake == OnContainer(getRuntimeState \o <<Either(
    Told("WakeupContainer", <<Maybe(<<ChangesState>>)>>), <<Sets(FALSE)>>)>>)

clearUserId == Effect("user id given back")
Ended       == <<clearUserId, Maybe(<<ChangesState>>)>>
\* That there is no container is as good as that it was stopped.
Terminate == OnContainer(<<
    Try("StopContainer"),
    IfGood(Ended, <<Either(<<Sets(TRUE), clearUserId>>, <<Maybe(<<Sets(TRUE)>>)>>)>>)>>)
Kill == OnContainer(Told("StopContainer", Ended))

GetInfo  == OnContainer(Told("GetContainerInfo", NoSteps))
Annotate == OnContainer(Needs(Told("Annotate", NoSteps)))
Mount    == NoSteps
Unmount  == NoSteps

-----------------------------------------------------------------------------
\* Only a look: nobody waits for what is said of the storage.
getAppStorageInfo == <<
    Either(<<Sets(TRUE)>>, createStorageManagerPluginObject), IfGood(<<Ignore("GetStorage")>>, NoSteps)>>

\* STARTING is told and the user id taken before anything is known to work;
\* neither storage nor display is looked at.
Run == dispatchEvent \o Admin(
    <<Effect("user id taken"), Maybe(getAppStorageInfo), Maybe(<<Ignore("createDisplay")>>),
      Either(WithContainer(Told("StartContainerFromDobbySpec", <<Record(Effect("mRuntimeAppInfo"))>>)),
             <<Sets(FALSE)>>)>>)

-----------------------------------------------------------------------------
Catalogue == [
    Register |-> Register, Unregister |-> Unregister, Dispatch |-> Dispatch, Run |-> Run,
    Suspend |-> Suspend, Resume |-> Resume, Hibernate |-> Hibernate, Wake |-> Wake,
    Terminate |-> Terminate, Kill |-> Kill, GetInfo |-> GetInfo, Annotate |-> Annotate,
    Mount |-> Mount, Unmount |-> Unmount]
=============================================================================
