------------------------- MODULE UsbDeviceRequests -------------------------
(***************************************************************************)
(* The requests of USBDevice as steps.  What libusb and the file system    *)
(* hand out - the list of devices, handles, descriptors, directories - has *)
(* to be given back before the reply.                                      *)
(***************************************************************************)
EXTENDS RequestSteps

Admin(body) == Within("_adminLock", body)
Registered  == Under("_adminLock", Effect("notification"))

Register   == Admin(<<Maybe(<<Registered>>)>>)
Unregister == Admin(<<Either(<<Registered>>, <<Sets(FALSE)>>)>>)
\* The listeners are told with the lock held.
Dispatch   == Admin(<<Repeat(<<Under("_adminLock", Effect("OnDevicePlugged"))>>)>>)

-----------------------------------------------------------------------------
getDeviceSerialNumber == <<Maybe(Within("serial file", NoSteps))>>

\* Each block device whose vendor and model can be read is looked for among
\* the links of the disks.
getDevicePathFromDevice ==
    getDeviceSerialNumber
    \o <<Maybe(Within("block directory", <<Repeat(<<
         Maybe(Within("vendor file", NoSteps)), Maybe(Within("model file", NoSteps)),
         Maybe(Within("disk directory", <<Repeat(<<Throws>>)>>))>>)>>))>>

getUSBDevicClassFromInterfaceDescriptor == <<Maybe(Within("config descriptor", NoSteps))>>

\* The path of a disk is looked for twice.
getUSBDeviceStructFromDeviceDescriptor == <<Either(
    <<Maybe(getUSBDevicClassFromInterfaceDescriptor),
      Maybe(getDevicePathFromDevice \o <<Maybe(getDevicePathFromDevice)>>), Sets(TRUE)>>,
    <<Sets(FALSE)>>)>>

getUSBDescriptorValue == <<Asks>>

\* With more than one language the result is that of the last string, with
\* one or an error it is success.
getUSBExtInfoStructFromDeviceDescriptor == <<
    Sets(FALSE),
    Maybe(Within("device handle", <<Either(
        getUSBDescriptorValue \o getUSBDescriptorValue \o getUSBDescriptorValue,
        <<Repeat(getUSBDescriptorValue), Sets(TRUE)>>)>>))>>

\* The active config descriptor is not freed.
getUSBDeviceInfoStructFromDeviceDescriptor == <<
    Sets(FALSE),
    Maybe(<<Maybe(getUSBDevicClassFromInterfaceDescriptor), Maybe(getDevicePathFromDevice),
            Maybe(<<Takes("active config descriptor")>>)>>
          \o getUSBExtInfoStructFromDeviceDescriptor)>>

-----------------------------------------------------------------------------
\* What is done with the devices, if there are any.
WithDevices(body, else) == Admin(<<Either(Within("device list", body), else)>>)

\* The result is that of the last device.
GetDeviceList == WithDevices(
    getUSBDeviceStructFromDeviceDescriptor \o <<Repeat(getUSBDeviceStructFromDeviceDescriptor)>>,
    <<Sets(TRUE)>>)

\* Level and parent, which the reply carries, are filled in when the rest
\* could not be.
GetDeviceInfo == <<Sets(FALSE)>> \o WithDevices(
    <<Maybe(getUSBDeviceInfoStructFromDeviceDescriptor)>>, NoSteps)

\* Nothing is left to do when the driver is as it should be.
OnDriver(f) == <<Sets(FALSE)>> \o WithDevices(
    <<Maybe(<<Maybe(Within("device handle", <<Maybe(<<Either(<<Try(f)>>, <<Sets(TRUE)>>)>>)>>))>>)>>,
    NoSteps)
BindDriver   == OnDriver("libusb_attach_kernel_driver")
UnbindDriver == OnDriver("libusb_detach_kernel_driver")

-----------------------------------------------------------------------------
Catalogue == [
    Register |-> Register, Unregister |-> Unregister, Dispatch |-> Dispatch,
    GetDeviceList |-> GetDeviceList, GetDeviceInfo |-> GetDeviceInfo,
    BindDriver |-> BindDriver, UnbindDriver |-> UnbindDriver]
=============================================================================
