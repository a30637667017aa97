CONSTANTS
  Quantities = {0, 1, 7, 8, 9, 120, 121, 122, 123, 124, 125, 126, 1967, 1968, 1969, 2000, 2001}
  Offsets = {0, 1, 65535}
  VendorFuncs = {65}
  VendorResults <- CallbackReturns
  NameChars = {32, 47, 48, 49, 50, 52, 55, 56, 57, 58}
  NameLen = 3
  Bauds = {1, 300, 1200, 9600, 14400, 19200, 19201, 38400, 115200, 921600, 11000000}
  TxUnits = {0, 1, 2}
  TxBytesTried = {0, 1, 85, 165, 255}
  Masks = {1, 2, 4, 8, 16, 32, 64, 128, 3, 129, 255}
  RxUnit = 1
  MaxWrite = 4
  WriteResults <- WriteReturns
  TableSizes = {0, 1, 8, 125, 65536}
  CallbackResults <- IoCallbackReturns
  Addresses = {0, 1, 65535}
SPECIFICATION Spec
INVARIANTS ResponseFitsBuffer DecodeWithinCallerBuffer BringupNamesUnit TimersFitLine RxReturnsLengthOrError RxAcceptsSentFrame WriteEmitsBuffer HandlerRejectsBeforeWriting
