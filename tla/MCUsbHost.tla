----------------------------- MODULE MCUsbHost -----------------------------
(* A receiver, a keyboard with a pad behind it, a keyboard that has no report *)
(* descriptor, and a device with more interfaces than are kept; and, for the  *)
(* decoding of what they say, the devices of HidDevices.                      *)
EXTENDS UsbHost, HidDevices

I(kind, report) == [kind |-> kind, report |-> report]

MCConfigs ==
  {<<I("xbox", FALSE)>>,
   <<I("keyboard", TRUE), I("hid", TRUE)>>,
   <<I("keyboard", FALSE), I("other", TRUE)>>,
   <<I("hid", TRUE), I("keyboard", FALSE), I("hid", TRUE), I("xbox", FALSE)>>}

\* Whatever a gamepad or a keyboard declares in its report descriptor - padding, other
\* reports, other applications, nested collections, ranges, signed axes - what its user
\* holds is what is decoded; a report of another ID, too short, or of an undecided
\* keyboard is refused, no accepted field lies outside its report, and an Xbox pad's
\* sticks and presence are read right (usb_hid_parse_gamepad_descriptor,
\* usb_hid_decode_gamepad, their keyboard counterparts and usb_xinput_decode).
ReportsAreUnderstood == opened # 0 => ReportsAreRead

=============================================================================
