----------------------------- MODULE MCUsbStack -----------------------------
(* A host that enumerates the badge and asks for what drivers ask for.      *)
EXTENDS UsbStack

MCEnumeration ==
  <<GetDescriptor("device", 64), GetDescriptor("device", 18), GetDescriptor("config", 9),
    GetDescriptor("config", cfg_desc.wTotalLength), GetDescriptor("lang", 255),
    GetDescriptor("product", 255), SetConfiguration>>

MCLaterRequests ==
  {SetIdle, GetReportDescriptor, GetIdle, GetStatus, GetConfiguration,
   GetDescriptor("config", cfg_desc.wTotalLength)}

=============================================================================
