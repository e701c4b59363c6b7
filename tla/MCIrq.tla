------------------------------- MODULE MCIrq -------------------------------
(***************************************************************************)
(* Small instances of IrqKernel: the periodic timer, a device whose        *)
(* handler runs with interrupts enabled (the serial port) and one whose    *)
(* handler has IRQF_DISABLED (the touch screen).                           *)
(***************************************************************************)
EXTENDS IrqKernel

Uart == 9
Sadc == 12
Tcu0 == 23

AllLines == {Uart, Sadc, Tcu0}
=============================================================================
