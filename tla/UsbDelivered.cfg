SPECIFICATION UsbSpec
CONSTANTS
  Device = {d1}
  Omitted = Omitted
  UsbThread = {x1}
  MaxUsbEdit = 2
  MaxPushAll = 1
  MaxDrift = 1
INVARIANTS
  UsbDelivered
