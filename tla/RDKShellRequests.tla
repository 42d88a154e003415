-------------------------- MODULE RDKShellRequests --------------------------
(***************************************************************************)
(* The requests of RDKShell other than launch, suspend and destroy, which  *)
(* the module RDKShell models, as steps.  Each wrapper checks its          *)
(* parameters and calls a method of the same name; most methods are one    *)
(* call of the compositor under gRdkShellMutex.  Built with hibernation    *)
(* and without Rialto.                                                     *)
(***************************************************************************)
EXTENDS RequestSteps

Tries(f)      == Under("gRdkShellMutex", Try(f))
Ignores(f)    == Under("gRdkShellMutex", Ignore(f))
Alters(f)     == Under("gRdkShellMutex", Effect(f))
Locked(body)  == Within("gRdkShellMutex", body)
Compositor(f) == Locked(<<Tries(f)>>)
Reads         == Locked(<<Under("gRdkShellMutex", Asks)>>)
\* The clients of the compositor are searched first.
IfClient(f)   == Locked(<<Sets(FALSE), Maybe(<<Tries(f)>>)>>)

-----------------------------------------------------------------------------
(* Order, focus and life of clients *)

moveToFront == Compositor("moveToFront")
moveToFrontWrapper == Needs(moveToFront)

moveToBack == Compositor("moveToBack")
moveToBackWrapper == Needs(moveToBack)

moveBehind == IfClient("moveBehind")
moveBehindWrapper == Needs(moveBehind)

setHibernateBlocked(b) ==
    Within("gHibernateBlockedMutex", <<IF b THEN Takes("hibernate blocked") ELSE Frees("hibernate blocked")>>)

tellFocus == <<Takes("focusedCallsign"), Ignore("Focused"), Frees("focusedCallsign")>>

\* The plugin that loses the focus is told unless it is suspended or
\* hibernated, and is not hibernated meanwhile.
tellFocusLost == <<
    Takes("gSuspendedOrHibernatedApplicationsMutex"),
    Under("gSuspendedOrHibernatedApplicationsMutex", Looks),
    Either(setHibernateBlocked(TRUE) \o <<Frees("gSuspendedOrHibernatedApplicationsMutex"),
                                          Maybe(tellFocus)>> \o setHibernateBlocked(FALSE),
           <<Frees("gSuspendedOrHibernatedApplicationsMutex")>>)>>

setFocus == Body(
    Peek("gLaunchDestroyMutex") \o <<Maybe(<<Return(FALSE)>>)>>
    \o Compositor("setFocus")
    \o <<Maybe(Peek("gPluginDataMutex")
               \o <<Maybe(tellFocusLost), Maybe(tellFocus)>>)>>)
setFocusWrapper == Needs(setFocus)

getFocused == Reads
getFocusedWrapper == getFocused

\* The listener and the display name are gone before the render thread is
\* asked.
kill ==
    Locked(<<Alters("listener removed"), Alters("kill requested"), Alters("display name erased")>>)
    \o <<Awaits("kill")>>

\* Applications in containers are stopped too, unless they are stopped or
\* in between.
killWrapper == Body(Needs(
    Reads \o kill \o
    <<IfGood(NoSteps, <<Return(FALSE)>>),
      Maybe(<<
        Maybe(<<Return(FALSE)>>),
        Maybe(<<Either(<<Try("stopContainer")>>, <<Return(FALSE)>>)>>)>>)>>))

\* An existing client gets the listener although the request fails.
createDisplay ==
    Peek("gRdkShellMutex")
    \o <<Either(Locked(<<Alters("display requested")>>) \o <<Awaits("createDisplay")>>, <<Sets(FALSE)>>)>>
    \o Locked(<<Alters("listener added")>>)
createDisplayWrapper == Needs(createDisplay)

-----------------------------------------------------------------------------
(* Keys *)

addKeyIntercept == Compositor("addKeyIntercept")
addKeyInterceptWrapper == Needs(addKeyIntercept)

\* A malformed entry is skipped; what an intercept returns replaces what
\* was found before.
addKeyIntercepts == <<Repeat(<<Either(addKeyIntercept, <<Sets(FALSE)>>)>>)>>
addKeyInterceptsWrapper == Needs(addKeyIntercepts)

RemovedBlindly     == Locked(<<Ignores("removeKeyIntercept")>>)
removeKeyIntercept == Compositor("removeKeyIntercept")
removeKeyInterceptWrapper == Needs(removeKeyIntercept)

\* The first key that cannot be added ends the loop, the earlier ones stay.
LeavesLocked(f) == Body(
    <<Takes("gRdkShellMutex"), Repeat(<<Tries(f), IfGood(NoSteps, <<Leaves>>)>>), Frees("gRdkShellMutex")>>)
eachKey(f) == Locked(Body(<<Repeat(<<Either(<<Tries(f)>>, <<Sets(FALSE)>>), IfGood(NoSteps, <<Leaves>>)>>)>>))
addKeyListeners    == eachKey("addKeyListener")
removeKeyListeners == eachKey("removeKeyListener")
addKeyListenersWrapper    == Needs(addKeyListeners)
removeKeyListenersWrapper == Needs(removeKeyListeners)

addKeyMetadataListenerWrapper    == Needs(Compositor("addKeyMetadataListener"))
removeKeyMetadataListenerWrapper == Needs(Compositor("removeKeyMetadataListener"))

injectKey == Compositor("injectKey")
injectKeyWrapper == Needs(injectKey)

\* The result is the last key's; keys for clients that do not exist are
\* dropped.
generateKey == <<Sets(FALSE), Repeat(Locked(<<Maybe(<<Tries("generateKey")>>)>>))>>
generateKeyWrapper == Needs(generateKey)

-----------------------------------------------------------------------------
(* What is shown *)

getScreenResolution == Reads
getScreenResolutionWrapper == getScreenResolution
setScreenResolution == Locked(<<Alters("resolution requested")>>)
setScreenResolutionWrapper == Needs(setScreenResolution)

getClients == Locked(NoSteps)
getClientsWrapper == getClients
getZOrder == Locked(NoSteps)
getZOrderWrapper == getZOrder

getBounds == Reads
getBoundsWrapper == Needs(getBounds)
\* The first setBounds only makes the compositor resize.
setBounds == Locked(<<Ignores("setBounds to flush"), Tries("setBounds")>>)
\* Bounds not given are taken from those the client has.
setBoundsWrapper == Needs(Peek("gRdkShellMutex") \o setBounds)
scaleToFitWrapper == Needs(Locked(<<Under("gRdkShellMutex", Looks), Tries("scaleToFit")>>))

getVisibility == Reads
getVisibilityWrapper == Needs(getVisibility)

\* The compositor's client is shown or hidden before it is seen that the
\* plugin is being destroyed.
tellVisibility ==
    Peek("gLaunchDestroyMutex") \o <<Maybe(<<Return(FALSE)>>)>>
    \o Within("gDestroyMutex", <<Maybe(<<Takes("browser"), Ignore("Visibility"), Frees("browser")>>)>>)
setVisibility == Body(
    Compositor("setVisibility")
    \o Peek("gLaunchDestroyMutex") \o <<Maybe(<<Return(FALSE)>>)>>
    \o Peek("gPluginDataMutex") \o <<Maybe(tellVisibility)>>)
setVisibilityWrapper == Needs(setVisibility)

getOpacity == Reads
getOpacityWrapper == Needs(getOpacity)
setOpacity == IfClient("setOpacity")
setOpacityWrapper == Needs(setOpacity)

getScale == Reads
getScaleWrapper == Needs(getScale)
setScale == IfClient("setScale")
\* A factor not given is the one the client has.
setScaleWrapper == Needs(Peek("gRdkShellMutex") \o <<Either(setScale, <<Sets(FALSE)>>)>>)

getHolePunch == Reads
getHolePunchWrapper == Needs(getHolePunch)
setHolePunch == Compositor("setHolePunch")
setHolePunchWrapper == Needs(setHolePunch)

getLogLevelWrapper == Reads
setLogLevelWrapper == Needs(Compositor("setLogLevel"))

showSplashLogoWrapper == Needs(Locked(<<Alters("splash screen requested")>>))
hideSplashLogoWrapper == Compositor("hideSplashScreen")

removeAnimation == Compositor("removeAnimation")
removeAnimationWrapper == Needs(removeAnimation)

\* Animations without a client or a duration are skipped.  A duration or
\* scale that is no number throws an exception under the lock.
addAnimationList == Locked(<<Repeat(<<Maybe(<<Throws, Alters("addAnimation")>>)>>)>>)
addAnimationWrapper == <<Maybe(addAnimationList)>>

enableInactivityReporting == Locked(<<Alters("enableInactivityReporting")>>)
enableInactivityReportingWrapper == Needs(enableInactivityReporting)
setInactivityInterval == Locked(<<Ignores("setInactivityInterval")>>)
setInactivityIntervalWrapper == Needs(setInactivityInterval)
resetInactivityTime == Locked(<<Ignores("resetInactivityTime")>>)
resetInactivityTimeWrapper == Needs(resetInactivityTime)

setTopmost == Compositor("setTopmost")
setTopmostWrapper == Needs(setTopmost)

showWatermark == Locked(<<Either(<<Alters("watermark requested")>>, <<Tries("hideWatermark")>>)>>)
showWatermarkWrapper == showWatermark

showFullScreenImage == Locked(<<Alters("image requested")>>)
showFullScreenImageWrapper == Needs(showFullScreenImage)
hideFullScreenImageWrapper == Compositor("hideFullScreenImage")

getVirtualResolution == Reads
getVirtualResolutionWrapper == Needs(getVirtualResolution)
setVirtualResolution == Compositor("setVirtualResolution")
\* A width or height not given is the one the client has.
setVirtualResolutionWrapper == Needs(Peek("gRdkShellMutex") \o setVirtualResolution)

enableVirtualDisplay == Compositor("enableVirtualDisplay")
enableVirtualDisplayWrapper == Needs(Needs(enableVirtualDisplay))
getVirtualDisplayEnabled == Reads
getVirtualDisplayEnabledWrapper == Needs(getVirtualDisplayEnabled)

\* What setVisibility returns is not looked at.
hideAllClientsWrapper == Needs(Locked(<<Repeat(<<Ignores("setVisibility")>>)>>))

getScreenshotWrapper == Locked(<<Alters("screenshot requested")>>)

showCursor == Compositor("showCursor")
hideCursor == Compositor("hideCursor")
setCursorSize == Compositor("setCursorSize")
setCursorSizeWrapper == Needs(setCursorSize)
getCursorSize == Reads
getCursorSizeWrapper == getCursorSize

getGraphicsFrameRateWrapper == Locked(NoSteps)
setGraphicsFrameRateWrapper == Needs(Locked(<<Alters("gCurrentFramerate")>>))

-----------------------------------------------------------------------------
(* Input *)

enableKeyRepeats == Compositor("enableKeyRepeats")
enableKeyRepeatsWrapper == Needs(enableKeyRepeats)
getKeyRepeatsEnabled == Reads
getKeyRepeatsEnabledWrapper == getKeyRepeatsEnabled
keyRepeatConfigWrapper == Needs(Locked(<<Alters("setKeyRepeatConfig")>>))
ignoreKeyInputsWrapper == Needs(Compositor("ignoreKeyInputs"))

\* After one client that refuses, the others are left out.
enableInputEvents ==
    Locked(Body(<<Repeat(<<Tries("enableInputEvents"), IfGood(NoSteps, <<Leaves>>)>>)>>))
enableInputEventsWrapper == Needs(enableInputEvents)

getLastWakeupKeyWrapper == <<Asks>>

enableEasterEggsWrapper == Needs(<<Effect("mEnableEasterEggs")>>)
addEasterEggsWrapper == Needs(Needs(Locked(<<Alters("addEasterEgg")>>)))
\* Without an id the request fails, and still removes.
removeEasterEggsWrapper == Needs(NoSteps) \o Locked(<<Alters("removeEasterEgg")>>)
getEasterEggsWrapper == Locked(NoSteps)

-----------------------------------------------------------------------------
(* Logs, memory and other plugins *)

enableLogsFlushing == Locked(<<Alters("enableFlushing")>>)
enableLogsFlushingWrapper == Needs(enableLogsFlushing)
getLogsFlushingEnabled == Locked(NoSteps)
getLogsFlushingEnabledWrapper == getLogsFlushingEnabled

setMemoryMonitorWrapper == Needs(<<Throws, Effect("setMemoryMonitor")>>)
systemMemory == Reads
getSystemMemoryWrapper == systemMemory

\* The plugin's interface is not released.
pluginMemoryUsage == <<Maybe(<<Takes("pluginMemoryInterface")>>), Sets(TRUE)>>
getSystemResourceInfoWrapper == <<Repeat(<<Maybe(pluginMemoryUsage)>>)>>

getAvailableTypesWrapper == NoSteps
getState == <<Repeat(<<Maybe(Within("gExitReasonMutex", NoSteps))>>)>>

setAVBlocked == Locked(<<Either(<<Tries("setAVBlocked")>>, <<Sets(FALSE)>>)>>)
\* The first application that cannot be blocked leaves out the others.
setAVBlockedWrapper == <<Maybe(<<Repeat(<<Maybe(<<IfGood(setAVBlocked, NoSteps)>>)>>)>>)>>
getBlockedAVApplications == Reads
getBlockedAVApplicationsWrapper == <<Maybe(getBlockedAVApplications)>>

-----------------------------------------------------------------------------
(* Applications in containers and applications of the compositor *)

\* The bundle is found by LISA or by the packager.  A display made stays
\* when there is no OCIContainer, and is killed when the container fails.
launchInContainer ==
    <<Maybe(<<Maybe(<<Return(FALSE)>>)>>)>> \o createDisplay
    \o <<IfGood(NoSteps, <<Return(FALSE)>>)>>
    \o Locked(<<Ignores("setMimeType")>>)
    \o <<Maybe(<<Return(FALSE)>>), Try("startContainer"),
         IfGood(NoSteps, kill \o <<Return(FALSE)>>)>>

launchApplicationWrapper == Body(Needs(<<
    Either(launchInContainer,
           <<Either(Locked(<<Tries("launchApplication"), Alters("listener added")>>),
                    <<Sets(FALSE)>>)>>)>>))

\* What the compositor returns is replaced by what setVisibility does.
changeApplication(f, g) == Body(Needs(
    Reads \o <<IfGood(NoSteps, <<Return(FALSE)>>),
      Either(Compositor(f),
             <<Maybe(<<Return(FALSE)>>), Try(g), IfGood(NoSteps, <<Return(FALSE)>>)>>)>>
    \o Body(setVisibility)))
suspendApplicationWrapper == changeApplication("suspendApplication", "pauseContainer")
resumeApplicationWrapper  == changeApplication("resumeApplication", "resumeContainer")

-----------------------------------------------------------------------------
(* Hibernation *)

waitForHibernateUnblocked ==
    Peek("gHibernateBlockedMutex") \o <<Maybe(<<Return(FALSE)>>)>>

\* The thread of the request; its result is in the event.
hibernateThread == Body(waitForHibernateUnblocked \o <<
    Try("hibernate"),
    IfGood(Within("gSuspendedOrHibernatedApplicationsMutex",
                  <<Under("gSuspendedOrHibernatedApplicationsMutex", Effect("hibernated"))>>), NoSteps)>>)
hibernateWrapper == Body(Needs(
    Peek("gLaunchDestroyMutex")
    \o <<Maybe(<<Return(FALSE)>>), Maybe(<<Return(FALSE)>>), Effect("hibernateThread")>>))

restoreThread  == <<Try("activate")>>
restoreWrapper == Needs(<<Effect("restoreThread")>>)

-----------------------------------------------------------------------------
(* The factory application *)

killAllApps == getState \o <<Repeat(<<Ignore("destroy")>>)>>

\* The compositor's list of easter eggs is changed without the lock.
addFactoryModeEasterEggs == <<Alters("AGING_MODE_EXIT1"), Alters("AGING_MODE_EXIT2")>>

NotLaunched == <<Frees("factory app STARTED"), Return(FALSE)>>
launchFactoryAppWrapper == Body(
    <<Maybe(<<Return(FALSE)>>), Takes("factory app STARTED"),
      Ignore("subscribeForSystemEvent"), Maybe(<<Maybe(NotLaunched)>>),
      Maybe(NotLaunched), Maybe(<<Ignore("setValue AgingTotalTime")>>)>>
    \o killAllApps \o <<Maybe(<<Ignore("destroy ResidentApp")>>),
      Try("launch"), IfGood(NoSteps, NotLaunched)>>
    \o addFactoryModeEasterEggs
    \o <<Ignore("setValue FactoryMode"), Ignore("setValue AllowExit"),
         Frees("factory app STARTED"), Return(TRUE)>>)

\* The map of active plugins is searched without its lock.
launchFactoryAppShortcutWrapper == Body(
    <<Under("gPluginDataMutex", Looks), Maybe(<<Return(TRUE)>>), Maybe(<<Return(FALSE)>>)>>
    \o launchFactoryAppWrapper)

launchResidentAppWrapper == Body(
    Peek("gPluginDataMutex") \o <<Maybe(<<Return(TRUE)>>), Maybe(<<Return(FALSE)>>),
      Ignore("setVisibility factoryapp")>> \o killAllApps
    \o <<Ignore("destroy factoryapp"), Ignore("stopHdmiInput"),
         Try("activate"), IfGood(NoSteps, <<Retry("activate")>>),
         Maybe(<<Ignore("setVisibility ResidentApp")>>), Maybe(<<Ignore("set url")>>),
         Ignore("setValue FactoryMode")>>)

toggleFactoryAppWrapper ==
    <<Under("gPluginDataMutex", Looks), Either(launchResidentAppWrapper, launchFactoryAppWrapper)>>

exitAgingModeWrapper == Body(
    <<Maybe(<<Return(FALSE)>>), Ignore("setValue AgingState")>>
    \o launchResidentAppWrapper \o <<Sets(TRUE)>>)

-----------------------------------------------------------------------------
Catalogue == [
    moveToFront |-> moveToFrontWrapper, moveToBack |-> moveToBackWrapper,
    moveBehind |-> moveBehindWrapper, setFocus |-> setFocusWrapper,
    getFocused |-> getFocusedWrapper, kill |-> killWrapper, createDisplay |-> createDisplayWrapper,
    addKeyIntercept |-> addKeyInterceptWrapper, addKeyIntercepts |-> addKeyInterceptsWrapper,
    removeKeyIntercept |-> removeKeyInterceptWrapper, addKeyListener |-> addKeyListenersWrapper,
    removeKeyListener |-> removeKeyListenersWrapper,
    addKeyMetadataListener |-> addKeyMetadataListenerWrapper,
    removeKeyMetadataListener |-> removeKeyMetadataListenerWrapper, injectKey |-> injectKeyWrapper,
    generateKey |-> generateKeyWrapper, getScreenResolution |-> getScreenResolutionWrapper,
    setScreenResolution |-> setScreenResolutionWrapper, getClients |-> getClientsWrapper,
    getZOrder |-> getZOrderWrapper, getBounds |-> getBoundsWrapper, setBounds |-> setBoundsWrapper,
    scaleToFit |-> scaleToFitWrapper, getVisibility |-> getVisibilityWrapper,
    setVisibility |-> setVisibilityWrapper, getOpacity |-> getOpacityWrapper,
    setOpacity |-> setOpacityWrapper, getScale |-> getScaleWrapper, setScale |-> setScaleWrapper,
    getHolePunch |-> getHolePunchWrapper, setHolePunch |-> setHolePunchWrapper,
    getLogLevel |-> getLogLevelWrapper, setLogLevel |-> setLogLevelWrapper,
    showSplashLogo |-> showSplashLogoWrapper, hideSplashLogo |-> hideSplashLogoWrapper,
    removeAnimation |-> removeAnimationWrapper, addAnimation |-> addAnimationWrapper,
    enableInactivityReporting |-> enableInactivityReportingWrapper,
    setInactivityInterval |-> setInactivityIntervalWrapper,
    resetInactivityTime |-> resetInactivityTimeWrapper, setTopmost |-> setTopmostWrapper,
    showWatermark |-> showWatermarkWrapper, showFullScreenImage |-> showFullScreenImageWrapper,
    hideFullScreenImage |-> hideFullScreenImageWrapper,
    getVirtualResolution |-> getVirtualResolutionWrapper,
    setVirtualResolution |-> setVirtualResolutionWrapper,
    enableVirtualDisplay |-> enableVirtualDisplayWrapper,
    getVirtualDisplayEnabled |-> getVirtualDisplayEnabledWrapper,
    hideAllClients |-> hideAllClientsWrapper, getScreenshot |-> getScreenshotWrapper,
    showCursor |-> showCursor, hideCursor |-> hideCursor, setCursorSize |-> setCursorSizeWrapper,
    getCursorSize |-> getCursorSizeWrapper, getGraphicsFrameRate |-> getGraphicsFrameRateWrapper,
    setGraphicsFrameRate |-> setGraphicsFrameRateWrapper,
    enableKeyRepeats |-> enableKeyRepeatsWrapper,
    getKeyRepeatsEnabled |-> getKeyRepeatsEnabledWrapper,
    keyRepeatConfig |-> keyRepeatConfigWrapper, ignoreKeyInputs |-> ignoreKeyInputsWrapper,
    enableInputEvents |-> enableInputEventsWrapper, getLastWakeupKey |-> getLastWakeupKeyWrapper,
    enableEasterEggs |-> enableEasterEggsWrapper, addEasterEggs |-> addEasterEggsWrapper,
    removeEasterEggs |-> removeEasterEggsWrapper, getEasterEggs |-> getEasterEggsWrapper,
    enableLogsFlushing |-> enableLogsFlushingWrapper,
    getLogsFlushingEnabled |-> getLogsFlushingEnabledWrapper,
    setMemoryMonitor |-> setMemoryMonitorWrapper, getSystemMemory |-> getSystemMemoryWrapper,
    getSystemResourceInfo |-> getSystemResourceInfoWrapper,
    getAvailableTypes |-> getAvailableTypesWrapper, getState |-> getState,
    setAVBlocked |-> setAVBlockedWrapper,
    getBlockedAVApplications |-> getBlockedAVApplicationsWrapper,
    launchApplication |-> launchApplicationWrapper,
    suspendApplication |-> suspendApplicationWrapper,
    resumeApplication |-> resumeApplicationWrapper, hibernate |-> hibernateWrapper,
    hibernateThread |-> hibernateThread, restore |-> restoreWrapper,
    restoreThread |-> restoreThread, launchFactoryApp |-> launchFactoryAppWrapper,
    launchFactoryAppShortcut |-> launchFactoryAppShortcutWrapper,
    launchResidentApp |-> launchResidentAppWrapper, toggleFactoryApp |-> toggleFactoryAppWrapper,
    exitAgingMode |-> exitAgingModeWrapper]
=============================================================================
