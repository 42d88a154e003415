-------------------------- MODULE SettingsRequests --------------------------
(***************************************************************************)
(* The requests of UserSettings as steps.  UserSettings has what becomes   *)
(* of a changed value; here are the replies of every setter and getter.    *)
(***************************************************************************)
EXTENDS RequestSteps, TLC

Admin(body) == Within("_adminLock", body)
Registered  == Under("_adminLock", Effect("notification"))
WithStore(body) == Admin(<<Either(body, <<Sets(FALSE)>>)>>)

Register   == Admin(<<Maybe(<<Registered>>)>>)
Unregister == Admin(<<Either(<<Registered>>, <<Sets(FALSE)>>)>>)
\* The listeners are told with the lock held.
Dispatch   == Admin(<<Repeat(<<Under("_adminLock", Effect("notification called"))>>)>>)

-----------------------------------------------------------------------------
SetUserSettingsValue == WithStore(<<Try("SetValue")>>)
\* What was never set has a default.
GetUserSettingsValue == WithStore(<<Asks>>)

Plain(setters, getters) ==
    [s \in setters |-> SetUserSettingsValue] @@ [g \in getters |-> GetUserSettingsValue]

SoundAndCaptions == Plain(
    {"SetAudioDescription", "SetPreferredAudioLanguages", "SetPresentationLanguage", "SetCaptions",
     "SetPreferredCaptionsLanguages", "SetPreferredClosedCaptionService"},
    {"GetAudioDescription", "GetPreferredAudioLanguages", "GetPresentationLanguage", "GetCaptions",
     "GetPreferredCaptionsLanguages", "GetPreferredClosedCaptionService"})
Viewing == Plain(
    {"SetPinControl", "SetViewingRestrictions", "SetViewingRestrictionsWindow", "SetLiveWatershed"},
    {"GetPinControl", "GetViewingRestrictions", "GetViewingRestrictionsWindow", "GetLiveWatershed"})
Ratings == Plain(
    {"SetPlaybackWatershed", "SetBlockNotRatedContent", "SetPinOnPurchase"},
    {"GetPlaybackWatershed", "GetBlockNotRatedContent", "GetPinOnPurchase"})
Accessibility == Plain(
    {"SetHighContrast", "SetVoiceGuidance", "SetVoiceGuidanceHints"},
    {"GetHighContrast", "GetVoiceGuidance", "GetVoiceGuidanceHints", "GetContentPin"})

\* Refused when out of range, or when it is no pin.
SetVoiceGuidanceRate == Needs(SetUserSettingsValue)
SetContentPin        == Needs(SetUserSettingsValue)
\* A stored value that is no number throws.
GetVoiceGuidanceRate == GetUserSettingsValue \o <<IfGood(<<Throws>>, NoSteps)>>

\* The old mode is read first, and the new one written if it differs, as it
\* does when the old one could not be read.
SetPrivacyMode == Needs(WithStore(<<Asks, IfGood(<<Maybe(<<Try("SetValue")>>)>>, <<Try("SetValue")>>)>>))
\* A mode that cannot be read is SHARE.
GetPrivacyMode == Admin(<<Maybe(<<Ignore("GetValue")>>)>>)

\* What cannot be read for another reason than that it is not there needs no
\* migration.
GetMigrationState  == Admin(<<Either(<<Ignore("GetValue")>>, <<Sets(FALSE)>>)>>)
GetMigrationStates == WithStore(<<Repeat(<<Ignore("GetValue")>>)>>)

-----------------------------------------------------------------------------
Catalogue ==
    SoundAndCaptions @@ Viewing @@ Ratings @@ Accessibility
    @@ [Register |-> Register, Unregister |-> Unregister, Dispatch |-> Dispatch,
        SetVoiceGuidanceRate |-> SetVoiceGuidanceRate, SetContentPin |-> SetContentPin,
        GetVoiceGuidanceRate |-> GetVoiceGuidanceRate, SetPrivacyMode |-> SetPrivacyMode,
        GetPrivacyMode |-> GetPrivacyMode, GetMigrationState |-> GetMigrationState,
        GetMigrationStates |-> GetMigrationStates]
=============================================================================
